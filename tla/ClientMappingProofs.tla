------------------------ MODULE ClientMappingProofs ------------------------
(***************************************************************************)
(* Proof that parseClientMapping forwards the client mapping to           *)
(* delegate.configureClient (ClientForwarded), for every value of the     *)
(* constants.                                                               *)
(***************************************************************************)
EXTENDS ClientMapping, SequenceTheorems, TLAPS

\* The entries of the history.
Entries == ({"name"} \X Names) \cup ({"version"} \X Texts)
           \cup (PropKeys \X PropValues)

\* The part of TypeOK the forwarding argument needs (the range of the
\* version, which rests on the digit loop, is left to TLC).
ForwardTypes ==
    /\ cpc \in {"entries", "done"}
    /\ name \in Names \cup {NoName}
    /\ properties \in Seq(PropKeys \X PropValues)
    /\ seen \in Seq(Entries)

\* The local 'name' is the value of the last 'name' entry read so far, or
\* the empty name; stated with its index, whose existence LastName takes
\* from CHOOSE.
NameIsLast ==
    \/ NameIndices(seen) = {} /\ name = NoName
    \/ \E m \in NameIndices(seen) :
          /\ \A j \in NameIndices(seen) : j <= m
          /\ name = seen[m][2]

\* ClientForwarded is not inductive: it speaks of configured only, and the
\* locals that configureClient receives must already be the forwarded
\* ones while the loop runs.  Once configureClient was called the
\* sub-parser has returned, and nothing changes any more.
Forwarding ==
    /\ NameIsLast
    /\ ListsInOrder(properties, seen)
    /\ configured # None =>
          /\ cpc = "done"
          /\ configured.name = name
          /\ configured.properties = properties

\* An entry's key is 'name', 'version' or a property key, never both.
LEMMA EntryKeys ==
    ASSUME NEW e \in Entries
    PROVE  /\ e = <<e[1], e[2]>>
           /\ e[1] = "name" => e[2] \in Names
           /\ e[1] \notin {"name", "version"} <=> e \in PropKeys \X PropValues
BY PropKeysAssumption DEF Entries

\* Appending an entry to the history keeps the earlier entries, and adds
\* the new index to the name or property indices according to its key.
LEMMA AppendIndices ==
    ASSUME NEW h \in Seq(Entries), NEW e \in Entries
    PROVE  LET h2 == Append(h, e) IN
           /\ \A i \in 1..Len(h) : h2[i] = h[i]
           /\ NameIndices(h2) =
                 IF e[1] = "name" THEN NameIndices(h) \cup {Len(h) + 1}
                 ELSE NameIndices(h)
           /\ PropertyIndices(h2) =
                 IF e[1] \notin {"name", "version"}
                 THEN PropertyIndices(h) \cup {Len(h) + 1}
                 ELSE PropertyIndices(h)
           /\ NameIndices(h) \subseteq 1..Len(h)
           /\ PropertyIndices(h) \subseteq 1..Len(h)
BY DEF NameIndices, PropertyIndices

\* NameIsLast determines LastName: the maximal index CHOOSE picks is the
\* one NameIsLast names.
LEMMA NameIsLastName ==
    ASSUME seen \in Seq(Entries), NameIsLast PROVE name = LastName(seen)
<1>1. CASE NameIndices(seen) = {} /\ name = NoName
  BY <1>1 DEF LastName
<1>2. CASE \E m \in NameIndices(seen) :
             /\ \A j \in NameIndices(seen) : j <= m
             /\ name = seen[m][2]
  <2>1. PICK m \in NameIndices(seen) :
             /\ \A j \in NameIndices(seen) : j <= m
             /\ name = seen[m][2]
    BY <1>2
  <2>2. NameIndices(seen) \subseteq Nat
    BY DEF NameIndices
  <2> DEFINE c == CHOOSE i \in NameIndices(seen) : \A j \in NameIndices(seen) : j <= i
  <2>3. c \in NameIndices(seen) /\ \A j \in NameIndices(seen) : j <= c
    BY <2>1
  <2>4. c = m
    BY <2>1, <2>2, <2>3
  <2>5. NameIndices(seen) # {}
    BY <2>1
  <2>6. LastName(seen) = seen[c][2]
    BY <2>5, Zenon DEF LastName
  <2> QED
    BY <2>1, <2>4, <2>6
<1> QED
  BY <1>1, <1>2 DEF NameIsLast

\* Reading an entry: a 'name' entry becomes the last one, any other
\* leaves the last 'name' entry where it was.
LEMMA AppendNameIsLast ==
    ASSUME seen \in Seq(Entries), NameIsLast, NEW e \in Entries,
           seen' = Append(seen, e),
           name' = IF e[1] = "name" THEN e[2] ELSE name
    PROVE  NameIsLast'
<1>1. /\ \A i \in 1..Len(seen) : seen'[i] = seen[i]
      /\ NameIndices(seen') =
            IF e[1] = "name" THEN NameIndices(seen) \cup {Len(seen) + 1}
            ELSE NameIndices(seen)
      /\ NameIndices(seen) \subseteq 1..Len(seen)
  BY AppendIndices
<1>2. CASE e[1] = "name"
  <2>1. /\ Len(seen) + 1 \in NameIndices(seen')
        /\ \A j \in NameIndices(seen') : j <= Len(seen) + 1
        /\ name' = seen'[Len(seen) + 1][2]
    BY <1>1, <1>2
  <2> QED
    BY <2>1 DEF NameIsLast
<1>3. CASE e[1] # "name"
  <2>1. NameIndices(seen') = NameIndices(seen) /\ name' = name
    BY <1>1, <1>3
  <2>2. CASE NameIndices(seen) = {} /\ name = NoName
    BY <2>1, <2>2 DEF NameIsLast
  <2>3. CASE \E m \in NameIndices(seen) :
               /\ \A j \in NameIndices(seen) : j <= m
               /\ name = seen[m][2]
    <3>1. PICK m \in NameIndices(seen) :
               /\ \A j \in NameIndices(seen) : j <= m
               /\ name = seen[m][2]
      BY <2>3
    <3>2. seen'[m] = seen[m]
      BY <1>1
    <3> QED
      BY <2>1, <3>1, <3>2 DEF NameIsLast
  <2> QED
    BY <2>2, <2>3 DEF NameIsLast
<1> QED
  BY <1>2, <1>3

\* Reading an entry: a property entry is appended to 'properties' as it
\* is to the history, a 'name' or 'version' entry to the history only.
LEMMA AppendListsInOrder ==
    ASSUME seen \in Seq(Entries), properties \in Seq(PropKeys \X PropValues),
           ListsInOrder(properties, seen), NEW e \in Entries,
           seen' = Append(seen, e),
           properties' = IF e[1] \notin {"name", "version"}
                         THEN Append(properties, e) ELSE properties
    PROVE  ListsInOrder(properties', seen')
<1>1. /\ \A i \in 1..Len(seen) : seen'[i] = seen[i]
      /\ PropertyIndices(seen') =
            IF e[1] \notin {"name", "version"}
            THEN PropertyIndices(seen) \cup {Len(seen) + 1}
            ELSE PropertyIndices(seen)
      /\ DOMAIN seen' = 1..Len(seen) + 1
  BY AppendIndices
<1>2. PICK f \in [1..Len(properties) -> DOMAIN seen] :
        /\ \A i, j \in 1..Len(properties) : i < j => f[i] < f[j]
        /\ {f[i] : i \in 1..Len(properties)} = PropertyIndices(seen)
        /\ \A i \in 1..Len(properties) : properties[i] = seen[f[i]]
  BY DEF ListsInOrder
<1>3. CASE e[1] \notin {"name", "version"}
  <2> DEFINE g == [i \in 1..Len(properties) + 1 |->
                     IF i <= Len(properties) THEN f[i] ELSE Len(seen) + 1]
  <2>1. properties' = Append(properties, e) /\ Len(properties') = Len(properties) + 1
    BY <1>3
  <2>2. g \in [1..Len(properties') -> DOMAIN seen']
    BY <1>1, <2>1
  <2>3. \A i, j \in 1..Len(properties') : i < j => g[i] < g[j]
    BY <1>2, <2>1
  <2>4. {g[i] : i \in 1..Len(properties')} = PropertyIndices(seen')
    BY <1>1, <1>2, <1>3, <2>1
  <2>5. \A i \in 1..Len(properties') : properties'[i] = seen'[g[i]]
    <3> TAKE i \in 1..Len(properties')
    <3>1. CASE i <= Len(properties)
      <4>0. i \in 1..Len(properties)
        BY <2>1, <3>1
      <4>1. f[i] \in 1..Len(seen) /\ g[i] = f[i]
        <5>1. f[i] \in DOMAIN seen
          BY <1>2, <4>0
        <5>2. g[i] = f[i]
          BY <4>0
        <5> QED
          BY <5>1, <5>2
      <4>2. properties'[i] = properties[i]
        BY <2>1, <3>1
      <4> QED
        BY <1>1, <1>2, <3>1, <4>1, <4>2
    <3>2. CASE i = Len(properties) + 1
      <4>1. g[i] = Len(seen) + 1 /\ properties'[i] = e
        BY <2>1, <3>2
      <4> QED
        BY <4>1
    <3>3. i <= Len(properties) \/ i = Len(properties) + 1
      BY <2>1
    <3> QED
      BY <3>1, <3>2, <3>3
  <2> QED
    BY <2>2, <2>3, <2>4, <2>5 DEF ListsInOrder
<1>4. CASE e[1] \in {"name", "version"}
  <2>1. properties' = properties /\ PropertyIndices(seen') = PropertyIndices(seen)
    BY <1>1, <1>4
  <2>2. f \in [1..Len(properties) -> DOMAIN seen']
    BY <1>1
  <2>3. \A i \in 1..Len(properties) : properties[i] = seen'[f[i]]
    <3> TAKE i \in 1..Len(properties)
    <3>1. f[i] \in 1..Len(seen)
      BY <1>2
    <3>2. seen'[f[i]] = seen[f[i]]
      BY <1>1, <3>1
    <3> QED
      BY <1>2, <3>2
  <2>4. ListsInOrder(properties, seen')
    BY <1>2, <2>1, <2>2, <2>3 DEF ListsInOrder
  <2> QED
    BY <2>1, <2>4
<1> QED
  BY <1>3, <1>4

\* A 'version' entry is read into the history, whatever getAsInteger says.
LEMMA VersionEntrySeen ==
    ASSUME VersionEntry
    PROVE  \E x \in Texts :
              /\ seen' = Append(seen, <<"version", x>>)
              /\ cpc' \in {"entries", "done"}
              /\ UNCHANGED configured
<1> PICK x \in Texts :
       LET p == GetAsInteger(x) IN
       /\ seen' = Append(seen, <<"version", x>>)
       /\ \/ p.err /\ ClientFail /\ UNCHANGED <<version, configured>>
          \/ ~p.err /\ version' = p.val
             /\ UNCHANGED <<cpc, cresult, cerrors, configured>>
  BY DEF VersionEntry
<1> QED
  BY DEF ClientFail, ReadEntry, VersionEntry

FwdInv == ForwardTypes /\ Forwarding

\* Reading one scalar entry e before configureClient: the history grows by
\* e, and 'name' and 'properties' follow it.
LEMMA ReadForwarding ==
    ASSUME FwdInv, cpc = "entries", NEW e \in Entries,
           seen' = Append(seen, e),
           name' = IF e[1] = "name" THEN e[2] ELSE name,
           properties' = IF e[1] \notin {"name", "version"}
                         THEN Append(properties, e) ELSE properties,
           cpc' \in {"entries", "done"}, UNCHANGED configured
    PROVE  FwdInv'
<1>1. configured = None
  BY DEF FwdInv, Forwarding
<1>2. ForwardTypes'
  <2>1. seen' \in Seq(Entries)
    BY DEF FwdInv, ForwardTypes
  <2>2. name' \in Names \cup {NoName}
    BY EntryKeys DEF FwdInv, ForwardTypes
  <2>3. properties' \in Seq(PropKeys \X PropValues)
    BY EntryKeys DEF FwdInv, ForwardTypes
  <2> QED
    BY <2>1, <2>2, <2>3 DEF ForwardTypes
<1>3. NameIsLast'
  BY AppendNameIsLast DEF FwdInv, ForwardTypes, Forwarding
<1>4. ListsInOrder(properties', seen')
  BY AppendListsInOrder DEF FwdInv, ForwardTypes, Forwarding
<1> QED
  BY <1>1, <1>2, <1>3, <1>4 DEF FwdInv, Forwarding

\* Every step of the sub-parser keeps FwdInv.
LEMMA NextForwarding ==
    ASSUME FwdInv, [Next]_cvars PROVE FwdInv'
<1>1. CASE NonScalarEntry
  <2>1. configured = None
    BY <1>1 DEF NonScalarEntry, ReadEntry, FwdInv, Forwarding
  <2> QED
    BY <1>1, <2>1 DEF NonScalarEntry, ClientFail, FwdInv, ForwardTypes,
       Forwarding, NameIsLast, ListsInOrder, NameIndices, PropertyIndices
<1>2. CASE NameEntry
  <2>1. PICK v \in Names :
          /\ name' = Assign(name, v)
          /\ seen' = Append(seen, <<"name", v>>)
    BY <1>2 DEF NameEntry
  <2>2. <<"name", v>> \in Entries
    BY DEF Entries
  <2> QED
    BY <1>2, <2>1, <2>2, ReadForwarding DEF NameEntry, ReadEntry, Assign
<1>3. CASE VersionEntry
  <2>1. PICK x \in Texts :
          /\ seen' = Append(seen, <<"version", x>>)
          /\ cpc' \in {"entries", "done"}
          /\ UNCHANGED configured
    BY <1>3, VersionEntrySeen
  <2>2. <<"version", x>> \in Entries
    BY DEF Entries
  <2> QED
    BY <1>3, <2>1, <2>2, ReadForwarding DEF VersionEntry, ReadEntry
<1>4. CASE PropertyEntry
  <2>1. PICK k \in PropKeys, v \in PropValues :
          /\ properties' = Append(properties, <<k, v>>)
          /\ seen' = Append(seen, <<k, v>>)
    BY <1>4 DEF PropertyEntry
  <2>2. <<k, v>> \in Entries /\ k \notin {"name", "version"}
    BY PropKeysAssumption DEF Entries
  <2> QED
    BY <1>4, <2>1, <2>2, ReadForwarding DEF PropertyEntry, ReadEntry
<1>5. CASE ConfigureClient
  <2>1. /\ configured' = [name |-> name, version |-> version,
                          properties |-> properties]
        /\ cpc' = "done"
        /\ UNCHANGED <<name, properties, seen>>
    BY <1>5, Zenon DEF ConfigureClient, ClientFail
  <2>2. ForwardTypes'
    BY <2>1 DEF FwdInv, ForwardTypes
  <2>3. NameIsLast' /\ ListsInOrder(properties', seen')
    BY <2>1, Zenon DEF FwdInv, Forwarding, NameIsLast, NameIndices
  <2>4. configured'.name = name' /\ configured'.properties = properties'
    BY <2>1
  <2> QED
    BY <2>1, <2>2, <2>3, <2>4 DEF FwdInv, Forwarding
<1>6. CASE Returned \/ UNCHANGED cvars
  <2>1. UNCHANGED cvars
    BY <1>6 DEF Returned
  <2> QED
    BY <2>1, Zenon DEF cvars, FwdInv, ForwardTypes, Forwarding, NameIsLast,
       NameIndices
<1> QED
  BY <1>1, <1>2, <1>3, <1>4, <1>5, <1>6 DEF Next

\* The empty history forwards nothing.
LEMMA InitFwdInv == Init => FwdInv
<1> SUFFICES ASSUME Init PROVE FwdInv
  OBVIOUS
<1>1. ForwardTypes /\ NameIsLast
  BY DEF Init, ForwardTypes, NameIsLast, NameIndices
<1>2. ListsInOrder(properties, seen)
  <2> DEFINE f == [i \in 1..0 |-> 0]
  <2>1. f \in [1..Len(properties) -> DOMAIN seen]
    BY DEF Init
  <2>2. {f[i] : i \in 1..Len(properties)} = PropertyIndices(seen)
    BY DEF Init, PropertyIndices
  <2>3. /\ \A i, j \in 1..Len(properties) : i < j => f[i] < f[j]
        /\ \A i \in 1..Len(properties) : properties[i] = seen[f[i]]
    BY DEF Init
  <2> QED
    BY <2>1, <2>2, <2>3, Zenon DEF ListsInOrder
<1> QED
  BY <1>1, <1>2 DEF Init, FwdInv, Forwarding

\* What configureClient receives (line 288, after the loop of lines
\* 259-285), for every value of the constants: the value of the last
\* 'name' entry, or the empty name, and every entry whose key is neither
\* 'name' nor 'version', in document order.
THEOREM ForwardedToConfigure == Spec => []ClientForwarded
<1>1. FwdInv => ClientForwarded
  BY NameIsLastName DEF FwdInv, ForwardTypes, Forwarding, ClientForwarded
<1>2. FwdInv /\ [Next]_cvars => FwdInv'
  BY NextForwarding
<1>3. Spec => []FwdInv
  BY InitFwdInv, <1>2, PTL DEF Spec
<1> QED
  BY <1>1, <1>3, PTL

----------------------------------------------------------------------------
(***************************************************************************)
(* One iteration of the digit loop of getAsUnsignedInteger, for every      *)
(* accumulator width.  The loop itself is a recursive function over the    *)
(* text, and what it computes for every text is induction over data, left *)
(* to TLC; what one iteration does is proved here.                         *)
(***************************************************************************)

\* The accumulator's modulus 2^AccWidth is a natural number of at least 10.
LEMMA AccModulus == 2^AccWidth \in Nat /\ 2^AccWidth >= 10
BY WidthAssumption

\* The shift-back test on a multiply-add that wraps: for any modulus M of at
\* least 10, a previous value below M and a digit, 'r / 10 < prev' holds of
\* the wrapped result r exactly when the true value reached M.
LEMMA ShiftBackExact ==
    ASSUME NEW M \in Nat, M >= 10, NEW prev \in 0..M-1, NEW d \in 0..9
    PROVE  ((prev * 10 + d) % M) \div 10 < prev <=> prev * 10 + d >= M
<1>1. CASE prev * 10 + d < M
  <2>1. (prev * 10 + d) % M = prev * 10 + d
    BY <1>1
  <2> QED
    BY <2>1, <1>1
<1>2. CASE prev * 10 + d >= M
  <2>1. PICK k \in 1..9 : (prev * 10 + d) % M = prev * 10 + d - k * M
    BY <1>2
  <2> QED
    BY <2>1, <1>2
<1> QED
  BY <1>1, <1>2

\* The overflow test of getAsUnsignedInteger ('Result/Radix < PrevResult',
\* BuildFile.cpp's version conversion through StringRef::getAsInteger) is
\* exact for every accumulator width of at least 4 bits: an iteration on a
\* decimal digit reports an error exactly when the value overflows the
\* accumulator, and otherwise holds the true value 10 * prev + digit.
THEOREM OverflowTestExact ==
    ASSUME NEW acc, acc.err = FALSE, acc.val \in 0..(2^AccWidth - 1),
           NEW c, IsAlnum(c), CharVal(c) \in 0..9
    PROVE  /\ DigitStep(acc, c).err <=> acc.val * Radix + CharVal(c) >= 2^AccWidth
           /\ ~DigitStep(acc, c).err => DigitStep(acc, c).val = acc.val * Radix + CharVal(c)
<1> DEFINE M == 2^AccWidth
           v == acc.val * Radix + CharVal(c)
<1>1. M \in Nat /\ M >= 10
  BY AccModulus
<1>5. v \in Nat /\ acc.val \in 0..M-1 /\ CharVal(c) \in 0..9
  BY <1>1 DEF Radix
<1>2. DigitStep(acc, c) = [err |-> Overflowed(v % M, acc.val), val |-> v % M]
  BY DEF DigitStep, Radix
<1>3. Overflowed(v % M, acc.val) <=> v >= M
  BY <1>1, ShiftBackExact DEF Overflowed, Radix
<1>4. v < M => v % M = v
  BY <1>1, <1>5
<1>6. DigitStep(acc, c).err <=> v >= M
  BY <1>2, <1>3
<1>7. ~DigitStep(acc, c).err => DigitStep(acc, c).val = v
  BY <1>2, <1>3, <1>4, <1>1, <1>5
<1> QED
  BY <1>6, <1>7
====
