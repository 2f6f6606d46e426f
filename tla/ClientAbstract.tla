--------------------------- MODULE ClientAbstract ---------------------------
(***************************************************************************)
(* What parsing the 'client' mapping promises the rest of the loader      *)
(* (BuildFileImpl::parseClientMapping): in one step it either reports one *)
(* error and gives up without calling delegate.configureClient, or it      *)
(* calls configureClient exactly once with a name, a version that fits a  *)
(* uint32_t and the forwarded properties, and succeeds exactly when the    *)
(* delegate accepts.  BuildFile's ParseClientMapping action is this step.  *)
(***************************************************************************)
EXTENDS Naturals, Sequences

CONSTANTS
    Names,          \* client names a document may give
    PropKeys,       \* keys of the client mapping other than name and version
    PropValues,     \* values of those keys
    VersionWidth,   \* bits of the version passed to configureClient
    None            \* configureClient not called

VARIABLES
    aphase,         \* "parsing", or "done" once the sub-parser has returned
    aresult,        \* "running", or what it returned: "ok" or "fail"
    aerrors,        \* number of delegate.error calls
    aconfigured     \* the arguments of the configureClient call, or None

avars == <<aphase, aresult, aerrors, aconfigured>>

(* The arguments configureClient can be called with; "" is the empty name. *)
ClientRecords ==
    [name : Names \cup {""}, version : 0..(2^VersionWidth - 1),
     properties : Seq(PropKeys \X PropValues)]

Init ==
    /\ aphase = "parsing"
    /\ aresult = "running"
    /\ aerrors = 0
    /\ aconfigured = None

(* A malformed mapping: one diagnostic, no configureClient call. *)
Reject ==
    /\ aphase = "parsing"
    /\ aphase' = "done"
    /\ aresult' = "fail"
    /\ aerrors' = aerrors + 1
    /\ UNCHANGED aconfigured

(* One configureClient call; its verdict decides the result. *)
Configure ==
    /\ aphase = "parsing"
    /\ aphase' = "done"
    /\ aconfigured' \in ClientRecords
    /\ \/ aresult' = "ok" /\ UNCHANGED aerrors
       \/ aresult' = "fail" /\ aerrors' = aerrors + 1

Next == Reject \/ Configure

Spec == Init /\ [][Next]_avars
=============================================================================
