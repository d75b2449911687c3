---------------------------- MODULE VerbChannel ----------------------------
(***************************************************************************)
(* What a caller of HDACodec::sendVerb followed by                         *)
(* HDACodec::readVerbResponse is promised, whatever the controller and the *)
(* codec do: an exchange ends with no response, or with the response to    *)
(* some verb that is not newer than the one just sent, that was not        *)
(* answered by an earlier exchange, and that is at most as many verbs old  *)
(* as there were exchanges without a response before.                      *)
(*                                                                         *)
(* Verbs are named by their position in the sequence of calls of sendVerb. *)
(***************************************************************************)
EXTENDS Naturals

CONSTANT MaxVerbs   \* bound on the number of verbs sent, a natural number

VARIABLES
  waiting,    \* a verb was sent and its outcome is not known yet
  sent,       \* the verb sent last; 0 before the first
  answered,   \* the verb whose response was returned last; 0 before the first
  timeouts    \* the number of exchanges that ended without a response

channelVars == <<waiting, sent, answered, timeouts>>

Init == /\ waiting = FALSE
        /\ sent = 0
        /\ answered = 0
        /\ timeouts = 0

Request == /\ ~waiting
           /\ sent < MaxVerbs
           /\ waiting' = TRUE
           /\ sent' = sent + 1
           /\ UNCHANGED <<answered, timeouts>>

Deliver == /\ waiting
           /\ \E verb \in (answered + 1)..sent :
                /\ sent - verb <= timeouts
                /\ answered' = verb
           /\ waiting' = FALSE
           /\ UNCHANGED <<sent, timeouts>>

NoAnswer == /\ waiting
            /\ waiting' = FALSE
            /\ timeouts' = timeouts + 1
            /\ UNCHANGED <<sent, answered>>

Next == Request \/ Deliver \/ NoAnswer

Spec == Init /\ [][Next]_channelVars
=============================================================================
