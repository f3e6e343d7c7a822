----------------------------- MODULE Allocator -----------------------------
(***************************************************************************)
(* What a storage allocator promises its callers: a request is given a run *)
(* of units nobody else has, what is handed back can be given again, and a *)
(* request is refused only when no run of free units is long enough.       *)
(***************************************************************************)
EXTENDS Integers

CONSTANTS
    Lowest, Highest \* the first and the last unit there is

VARIABLES
    free,           \* the units nobody has
    refused         \* the length of the request just refused, 0 if none was

Units == Lowest..Highest
Run(a, n) == a..(a + n - 1)
Fits(n) == \E a \in free : Run(a, n) \subseteq free

Init ==
    /\ free = Units
    /\ refused = 0

Give ==
    /\ \E a \in free, b \in free :
          /\ a..b \subseteq free
          /\ free' = free \ a..b
    /\ refused' = 0

TakeBack ==
    /\ \E a \in Units \ free, b \in Units \ free :
          /\ a <= b
          /\ a..b \cap free = {}
          /\ free' = free \cup a..b
    /\ refused' = 0

Refuse ==
    /\ refused' # 0
    /\ ~Fits(refused')
    /\ UNCHANGED free

\* A call that neither gives nor takes.
Settle ==
    /\ refused' = 0
    /\ UNCHANGED free

\* All of the storage is handed over anew.
Renew ==
    /\ free' = Units
    /\ refused' = 0

Next == Give \/ TakeBack \/ Refuse \/ Settle \/ Renew

Spec == Init /\ [][Next]_<<free, refused>>
=============================================================================
