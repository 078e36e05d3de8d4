------------------------------ MODULE WriteFifo ------------------------------
(* What the queue between the clipboard and the database promises: entries are *)
(* written one at a time, each at most once, in the order they were accepted.  *)
(* The service is opened and closed any number of times.  Until it is awake it *)
(* begins nothing, and if it closes then, it drops what it has accepted; once  *)
(* awake it closes only when nothing is pending.  It may be opened in a state  *)
(* that is not intact: nothing is promised from then on.                       *)
EXTENDS Naturals, Sequences

VARIABLES open,      \* entries are being accepted
          awake,     \* the service looks at what it accepts
          intact,    \* the promises hold
          accepted,  \* how many entries were accepted; entry n is the n-th
          pending,   \* entries accepted and not yet begun, oldest first
          writing,   \* the entry being written, 0 for none
          written    \* entries written, oldest first

vars == <<open, awake, intact, accepted, pending, writing, written>>

Init == /\ open = FALSE
        /\ awake = FALSE
        /\ intact = TRUE
        /\ accepted = 0
        /\ pending = << >>
        /\ writing = 0
        /\ written = << >>

Open == /\ ~open
        /\ open' = TRUE
        /\ awake' = FALSE
        /\ UNCHANGED <<accepted, pending, writing, written>>

Awake == /\ open /\ ~awake
         /\ awake' = TRUE
         /\ UNCHANGED <<open, accepted, pending, writing, written>>

Accept == /\ open
          /\ accepted' = accepted + 1
          /\ pending' = Append(pending, accepted')
          /\ UNCHANGED <<open, awake, writing, written>>

Begin == /\ awake
         /\ writing = 0
         /\ pending # << >>
         /\ writing' = Head(pending)
         /\ pending' = Tail(pending)
         /\ UNCHANGED <<open, awake, accepted, written>>

End == /\ writing # 0
       /\ written' = Append(written, writing)
       /\ writing' = 0
       /\ UNCHANGED <<open, awake, accepted, pending>>

Close == /\ open
         /\ writing = 0
         /\ awake => pending = << >>
         /\ open' = FALSE
         /\ pending' = << >>
         /\ UNCHANGED <<awake, accepted, writing, written>>

\* Intactness is lost only by opening, and never comes back.
Break == ~intact' /\ (intact => ~open /\ open')

Next == \/ intact /\ intact' /\ (Open \/ Awake \/ Accept \/ Begin \/ End \/ Close)
        \/ Break

Spec == Init /\ [][Next]_vars
===============================================================================
