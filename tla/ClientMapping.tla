---------------------------- MODULE ClientMapping ----------------------------
(***************************************************************************)
(* BuildFileImpl::parseClientMapping (BuildFile.cpp lines 253-294) in     *)
(* detail: the loop over the entries of the 'client' mapping, the reserved *)
(* keys 'name' and 'version', the conversion of the version text by        *)
(* llvm::StringRef::getAsInteger(10, uint32_t&), and the final             *)
(* delegate.configureClient call.  BuildFile models this sub-parser as one *)
(* atomic step; ClientAbstract states that step, and this module is shown  *)
(* to implement it.                                                        *)
(*                                                                         *)
(* getAsInteger is modelled by what it does: the digit loop of             *)
(* getAsUnsignedInteger over an unsigned long long accumulator of AccWidth *)
(* bits (64 in the code) with its shift-back overflow test, then the       *)
(* narrowing test static_cast<uint32_t>(v) != v for VersionWidth bits (32  *)
(* in the code).  Small widths keep the same arithmetic in TLC's reach.    *)
(***************************************************************************)
EXTENDS Naturals, Sequences

CONSTANTS
    Names,            \* values a document may give to 'name'
    PropKeys,         \* keys other than 'name' and 'version'
    PropValues,       \* values of those keys
    Chars,            \* characters a 'version' text is made of
    MaxText,          \* longest 'version' text read
    MaxClientEntries, \* entries read from the client mapping
    VersionWidth,     \* bits of uint32_t (32)
    AccWidth,         \* bits of unsigned long long (64)
    None              \* configureClient not called yet

ASSUME WidthAssumption ==
    /\ VersionWidth \in Nat \ {0}
    /\ AccWidth \in Nat
    /\ VersionWidth <= AccWidth
    /\ 10 <= 2^AccWidth
\* The property keys are the keys other than the two reserved ones.
ASSUME PropKeysAssumption == PropKeys \cap {"name", "version"} = {}
ASSUME ClientBoundsAssumption ==
    /\ MaxText \in Nat
    /\ MaxClientEntries \in Nat

VARIABLES
    cpc,          \* "entries" while the loop runs, "done" once it returned
    name,         \* the local std::string name
    version,      \* the local uint32_t version
    properties,   \* the local property_list_type properties
    cresult,      \* "running", or what the sub-parser returned
    cerrors,      \* number of delegate.error calls
    configured,   \* the arguments of the configureClient call, or None
    seen          \* history: the scalar entries read, as <<key, value>>

cvars == <<cpc, name, version, properties, cresult, cerrors, configured, seen>>

----------------------------------------------------------------------------
(* Characters and their values in getAsUnsignedInteger. *)
DigitChars == <<"0","1","2","3","4","5","6","7","8","9">>
LowerChars == <<"a","b","c","d","e","f","g","h","i","j","k","l","m",
                "n","o","p","q","r","s","t","u","v","w","x","y","z">>
UpperChars == <<"A","B","C","D","E","F","G","H","I","J","K","L","M",
                "N","O","P","Q","R","S","T","U","V","W","X","Y","Z">>

Position(s, c) == CHOOSE i \in DOMAIN s : s[i] = c
InSeq(s, c) == \E i \in DOMAIN s : s[i] = c

(* A character the loop gives a value: a digit or a letter. *)
IsAlnum(c) == InSeq(DigitChars, c) \/ InSeq(LowerChars, c) \/ InSeq(UpperChars, c)

(* '0'..'9' are 0..9, 'a'..'z' and 'A'..'Z' are 10..35. *)
CharVal(c) ==
    IF InSeq(DigitChars, c) THEN Position(DigitChars, c) - 1
    ELSE IF InSeq(LowerChars, c) THEN Position(LowerChars, c) + 9
    ELSE Position(UpperChars, c) + 9

Radix == 10

(* The version texts a document may hold, up to MaxText characters. *)
Texts == UNION {[1..n -> Chars] : n \in 0..MaxText}

(* The shift-back overflow test 'Result/Radix < PrevResult'. *)
\* Mutant: the test without the shift back, blind to a wrap that lands
\* at or above the previous value.
OverflowedUnshifted(r, prev) == r < prev
Overflowed(r, prev) == r \div Radix < prev

(* One iteration of the digit loop: acc is the accumulator and whether the *)
(* loop has already returned true; the multiply-add wraps at AccWidth.    *)
DigitStep(acc, c) ==
    IF acc.err \/ ~IsAlnum(c) \/ CharVal(c) >= Radix
    THEN [acc EXCEPT !.err = TRUE]
    ELSE LET r == (acc.val * Radix + CharVal(c)) % 2^AccWidth
         IN  [err |-> Overflowed(r, acc.val), val |-> r]

(* llvm::getAsUnsignedInteger(Str, 10, Result): true (err) on an empty     *)
(* string, a character that is not a decimal digit, or an overflow.        *)
GetAsUnsignedInteger(s) ==
    LET acc[i \in 0..Len(s)] ==
            IF i = 0 THEN [err |-> FALSE, val |-> 0]
            ELSE DigitStep(acc[i - 1], s[i])
    IN  IF s = <<>> THEN [err |-> TRUE, val |-> 0] ELSE acc[Len(s)]

(* The narrowing test of StringRef::getAsInteger<uint32_t>. *)
Narrowed(u) == u.err \/ u.val >= 2^VersionWidth

(* StringRef(value).getAsInteger(10, version): err, and the value stored   *)
(* into the uint32_t when there is none.                                   *)
\* Mutant: the conversion of the unsigned long long instantiation, with
\* no narrowing test and no truncation.
GetAsIntegerUnnarrowed(s) ==
    LET u == GetAsUnsignedInteger(s) IN [err |-> u.err, val |-> u.val]
GetAsInteger(s) ==
    LET u == GetAsUnsignedInteger(s)
    IN  [err |-> Narrowed(u), val |-> u.val % 2^VersionWidth]

----------------------------------------------------------------------------
(* Reference: the text is the decimal numeral, leading zeros allowed, of a *)
(* number that fits VersionWidth bits.                                      *)
Spells(v, s) ==
    /\ v < 10^Len(s)
    /\ \A i \in 1..Len(s) : s[i] = DigitChars[((v \div 10^(Len(s) - i)) % 10) + 1]

DecimalValues(s) ==
    IF s = <<>> THEN {} ELSE {v \in 0..(2^VersionWidth - 1) : Spells(v, s)}

----------------------------------------------------------------------------
NoName == ""

(* 'name = value': a later 'name' entry replaces an earlier one. *)
\* Mutant: only the first 'name' entry counts.
AssignIfUnset(old, new) == IF old = NoName THEN new ELSE old
Assign(old, new) == new

Init ==
    /\ cpc = "entries"
    /\ name = NoName
    /\ version = 0
    /\ properties = <<>>
    /\ cresult = "running"
    /\ cerrors = 0
    /\ configured = None
    /\ seen = <<>>

\* Mutant: the diagnostic without the return.
ClientFailNoReturn ==
    /\ cresult' = "fail"
    /\ cerrors' = cerrors + 1
    /\ UNCHANGED cpc
\* delegate.error(...); return false.
ClientFail ==
    /\ cpc' = "done"
    /\ cresult' = "fail"
    /\ cerrors' = cerrors + 1

ReadEntry == cpc = "entries" /\ Len(seen) < MaxClientEntries

(* A key or a value that is not a scalar. *)
NonScalarEntry ==
    /\ ReadEntry
    /\ ClientFail
    /\ UNCHANGED <<name, version, properties, configured, seen>>

NameEntry ==
    /\ ReadEntry
    /\ \E v \in Names :
        /\ name' = Assign(name, v)
        /\ seen' = Append(seen, <<"name", v>>)
    /\ UNCHANGED <<cpc, version, properties, cresult, cerrors, configured>>

(* On failure getAsInteger leaves 'version' as it was. *)
VersionEntry ==
    /\ ReadEntry
    /\ \E s \in Texts :
        LET p == GetAsInteger(s) IN
        /\ seen' = Append(seen, <<"version", s>>)
        /\ \/ p.err /\ ClientFail /\ UNCHANGED <<version, configured>>
           \/ ~p.err /\ version' = p.val
              /\ UNCHANGED <<cpc, cresult, cerrors, configured>>
    /\ UNCHANGED <<name, properties>>

PropertyEntry ==
    /\ ReadEntry
    /\ \E k \in PropKeys, v \in PropValues :
        /\ properties' = Append(properties, <<k, v>>)
        /\ seen' = Append(seen, <<k, v>>)
    /\ UNCHANGED <<cpc, name, version, cresult, cerrors, configured>>

(* The loop ends: delegate.configureClient(name, version, properties). *)
ConfigureClient ==
    /\ cpc = "entries"
    /\ configured' = [name |-> name, version |-> version, properties |-> properties]
    /\ \E accepted \in BOOLEAN :
        IF accepted
        THEN cpc' = "done" /\ cresult' = "ok" /\ UNCHANGED cerrors
        ELSE ClientFail
    /\ UNCHANGED <<name, version, properties, seen>>

(* The sub-parser has returned. *)
Returned == cpc = "done" /\ UNCHANGED cvars

Next ==
    \/ NonScalarEntry
    \/ NameEntry
    \/ VersionEntry
    \/ PropertyEntry
    \/ ConfigureClient
    \/ Returned

Spec == Init /\ [][Next]_cvars

----------------------------------------------------------------------------
(* Properties. *)

\* Every local of the sub-parser holds a value of its C++ type; the
\* version fits a uint32_t.
TypeOK ==
    /\ cpc \in {"entries", "done"}
    /\ name \in Names \cup {NoName}
    /\ version \in 0..(2^VersionWidth - 1)
    /\ properties \in Seq(PropKeys \X PropValues)
    /\ cresult \in {"running", "ok", "fail"}
    /\ cerrors \in Nat
    /\ seen \in Seq(({"name"} \X Names) \cup ({"version"} \X Texts)
                    \cup (PropKeys \X PropValues))

VersionTexts == {i \in DOMAIN seen : seen[i][1] = "version"}

(* The version passed to configureClient (line 288) is what the document   *)
(* says: every 'version' text read was the decimal numeral of a number     *)
(* that fits a uint32_t, and the version is the number the last one spells *)
(* (0 when there was none).  Digits past the accumulator's width, or a     *)
(* number past uint32_t, must fail at line 277 instead of wrapping.        *)
VersionIsDecimal ==
    configured # None =>
        /\ \A i \in VersionTexts : DecimalValues(seen[i][2]) # {}
        /\ IF VersionTexts = {} THEN configured.version = 0
           ELSE LET last == seen[CHOOSE i \in VersionTexts :
                                  \A j \in VersionTexts : j <= i][2]
                IN  configured.version \in DecimalValues(last)

(* The indices of the 'name' entries, and of the entries forwarded as      *)
(* properties, in a history of entries.                                    *)
NameIndices(h) == {i \in DOMAIN h : h[i][1] = "name"}
PropertyIndices(h) == {i \in DOMAIN h : h[i][1] \notin {"name", "version"}}

(* The value of the last 'name' entry of h, or the empty name. *)
LastName(h) ==
    IF NameIndices(h) = {} THEN NoName
    ELSE h[CHOOSE i \in NameIndices(h) : \A j \in NameIndices(h) : j <= i][2]

(* p is the subsequence of h at the property indices: a strictly          *)
(* increasing map sends the positions of p onto exactly those indices.     *)
ListsInOrder(p, h) ==
    \E f \in [1..Len(p) -> DOMAIN h] :
        /\ \A i, j \in 1..Len(p) : i < j => f[i] < f[j]
        /\ {f[i] : i \in 1..Len(p)} = PropertyIndices(h)
        /\ \A i \in 1..Len(p) : p[i] = h[f[i]]

(* configureClient receives the last 'name' of the mapping (or the empty   *)
(* name) and, in document order, every entry whose key is neither 'name'  *)
(* nor 'version' (lines 274-285).                                           *)
ClientForwarded ==
    configured # None =>
        /\ configured.name = LastName(seen)
        /\ ListsInOrder(configured.properties, seen)

(* The sub-parser is the atomic step of ClientAbstract: no step before its *)
(* return is visible to the loader, and it returns once, either with one   *)
(* diagnostic and no configureClient call or after one configureClient     *)
(* call whose verdict is its result.                                        *)
Abstract == INSTANCE ClientAbstract WITH
    aphase <- IF cpc = "done" THEN "done" ELSE "parsing",
    aresult <- cresult,
    aerrors <- cerrors,
    aconfigured <- configured
ImplementsAbstract == Abstract!Spec
=============================================================================
