----------------------------- MODULE MCHidDevice -----------------------------
(***************************************************************************)
(* Model-checking instances of HidDevice: two claims, one of a lease of an *)
(* authenticated session (or the embedded agent) and one of a KVM stream.  *)
(***************************************************************************)
EXTENDS HidDevice, TLC

CONSTANTS k1, t1, t2

EmbeddedLease == [kind |-> LeaseKind, session |-> EmbeddedSession, auth |-> 0,
                  resource |-> 2, epoch |-> 2]
KvmStream == [kind |-> KvmKind, session |-> "bob", auth |-> 2,
              resource |-> 1, epoch |-> 1]

C(type, ep) == [type |-> type, ep |-> ep, key |-> k1]

TwoTasks == {t1, t2}
TwoClaims == {EmbeddedLease, KvmStream}
KeyAndMouse == {"kb", "mouse"}
OneKey == {k1}
TaskSymmetry == Permutations(Tasks)

CompositeCommands == {C("combo", "kb"), C("down", "kb"), C("moveclick", "mouse"),
                      C("release_all", "kb"), C("unsupported", "kb")}
SimpleCommands == {C("down", "kb"), C("up", "kb"), C("move", "mouse")}
=============================================================================
