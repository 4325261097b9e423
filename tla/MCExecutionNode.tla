--------------------------- MODULE MCExecutionNode ---------------------------
(* Model checking of ExecutionNode on two instances that share one run:    *)
(* two generations under renewals and crashes, and one generation under    *)
(* output, a cancel and everything that can go wrong around it.  The digest *)
(* of the first request says which of them a behaviour belongs to.         *)
EXTENDS ExecutionNode

CONSTANT Calm   \* the digest of the first instance

\* Two generations of an identity and a renewal in flight.  Only a crash comes
\* between: no write fails, no runner does, and no output is written.
TwoGenerations ==
    /\ \A k \in DOMAIN rows' : rows'[k].digest = Calm
    /\ ~node'.draining
    /\ \A c \in Controllers : ctl'[c].op # "cancel"
    /\ \A k \in Keys : task'[k].sent = 0 /\ task'[k].runner \notin {"SetupError", "ReaderError"}

\* One generation and a cancel in flight, with every disturbance.
OneGeneration ==
    /\ \A k \in DOMAIN rows' : rows'[k].digest # Calm
    /\ DOMAIN rows' \subseteq ExecutionIds \X {1}
    /\ admit' # None => admit'.key[2] = 1
    /\ \A c \in Controllers : ctl'[c].op # "renew"

\* The steps of the two instances.
InOneInstance == TwoGenerations \/ OneGeneration

\* Clients ask for a cancel until one has taken effect.  No fairness is about their
\* requests.
CancelledOnce ==
    \A c \in Controllers :
        ctl[c].op = "none" /\ ctl'[c].op = "cancel" => ~rec[ctl'[c].key].cancelled
=============================================================================
