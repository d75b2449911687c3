-------------------------- MODULE ImmediateCommand --------------------------
(***************************************************************************)
(* HDACodec::sendVerb and HDACodec::readVerbResponse: the driver talks to  *)
(* the codec through the controller's immediate command registers.         *)
(*                                                                         *)
(*   ICW   the verb to send              IRR   the response latched last   *)
(*   ICS   bit 0, busy (icb): a command is being transmitted or awaited    *)
(*         bit 1, valid (irv): IRR holds a response; writing 1 clears it   *)
(*                                                                         *)
(* The driver is one thread; the controller and the codec run beside it.   *)
(* Nothing in the registers tells which verb a response belongs to, and    *)
(* the driver gives up after MaxRetries polls without cancelling the verb, *)
(* so its response can still arrive while a later exchange waits.          *)
(*                                                                         *)
(* A verb is named by its position in the sequence of calls of sendVerb,   *)
(* and a response by the verb it answers.                                  *)
(***************************************************************************)
EXTENDS Naturals, FiniteSets

CONSTANTS
  MaxVerbs,     \* bound on the number of verbs sent
  MaxRetries    \* polls before the driver gives up (1024 in the code)

ASSUME MaxVerbsAssumption == MaxVerbs \in Nat
ASSUME MaxRetriesAssumption == MaxRetries \in Nat \ {0}

VARIABLES
  pc,         \* what the driver does next
  retries,    \* polls left to readVerbResponse
  sent,       \* the verb sent last; 0 before the first
  answered,   \* the verb whose response was returned last; 0 before the first
  timeouts,   \* exchanges that returned no response
  drained,    \* history: nothing was in flight when the last verb was sent
  icb,        \* ICS busy bit
  irv,        \* ICS response valid bit
  icw,        \* ICW, the verb written last
  irr,        \* IRR, the verb whose response was latched last
  inflight    \* verbs on the link or in the codec, not answered and not lost

driverVars   == <<pc, retries, sent, answered, timeouts, drained>>
hardwareVars == <<icb, irv, icw, irr, inflight>>
vars         == <<driverVars, hardwareVars>>

Oldest(verbs) == CHOOSE v \in verbs : \A w \in verbs : v <= w

Init == /\ pc = "idle"
        /\ retries = 0
        /\ sent = 0
        /\ answered = 0
        /\ timeouts = 0
        /\ drained = TRUE
        /\ icb = FALSE
        /\ irv = FALSE
        /\ icw = 0
        /\ irr = 0
        /\ inflight = {}
-----------------------------------------------------------------------------
(* The driver. *)

(* Faulty: the valid bit of an earlier response is not cleared.             *)
SendVerbKeepingValid ==
  /\ pc = "idle"
  /\ sent < MaxVerbs
  /\ pc' = "load"
  /\ sent' = sent + 1
  /\ drained' = (inflight = {})
  /\ UNCHANGED <<retries, answered, timeouts, hardwareVars>>

(* sendVerb writes 2 to ICS: the valid bit is cleared. The same write puts  *)
(* 0 in the busy bit. A controller still waiting for an earlier verb may    *)
(* ignore that, stop waiting, or drop what is in flight.                    *)
SendVerb == /\ pc = "idle"
            /\ sent < MaxVerbs
            /\ pc' = "load"
            /\ sent' = sent + 1
            /\ drained' = (inflight = {})
            /\ irv' = FALSE
            /\ \/ UNCHANGED <<icb, inflight>>
               \/ icb' = FALSE /\ inflight' \in {inflight, {}}
            /\ UNCHANGED <<retries, answered, timeouts, icw, irr>>

(* Faulty: the verb is not written to ICW.                                  *)
LoadCommandNothing == /\ pc = "load"
                      /\ pc' = "trigger"
                      /\ UNCHANGED <<retries, sent, answered, timeouts, drained,
                                     hardwareVars>>

LoadCommand == /\ pc = "load"
               /\ pc' = "trigger"
               /\ icw' = sent
               /\ UNCHANGED <<retries, sent, answered, timeouts, drained,
                              icb, irv, irr, inflight>>

(* sendVerb writes 1 to ICS: the controller transmits ICW. If it was still  *)
(* busy it may ignore the write. The polling loop of readVerbResponse       *)
(* starts.                                                                  *)
TriggerCommand == /\ pc = "trigger"
                  /\ pc' = "poll"
                  /\ retries' = MaxRetries
                  /\ icb' = TRUE
                  /\ \/ inflight' = inflight \cup {icw}
                     \/ icb /\ UNCHANGED inflight
                  /\ UNCHANGED <<sent, answered, timeouts, drained,
                                 irv, icw, irr>>

(* Faulty: only the busy bit is looked at.                                  *)
ResponseReadyIfNotBusy == ~icb

(* (ICS & 3) = 2: not busy and valid.                                       *)
ResponseReady == ~icb /\ irv

(* Faulty: the counter is tested before it is decremented.                  *)
GivesUpLate(left) == left + 1 = 0

(* The decremented counter is tested: after MaxRetries polls that found no  *)
(* response the caller gets none.                                           *)
GivesUp(left) == left = 0

PollReady == /\ pc = "poll"
             /\ ResponseReady
             /\ pc' = "read"
             /\ UNCHANGED <<retries, sent, answered, timeouts, drained>>
             /\ UNCHANGED hardwareVars

(* Faulty: the polls are not counted.                                       *)
PollAgainUncounted == /\ pc = "poll"
                      /\ ~ResponseReady
                      /\ UNCHANGED vars

PollAgain == /\ pc = "poll"
             /\ ~ResponseReady
             /\ ~GivesUp(retries - 1)
             /\ retries' = retries - 1
             /\ UNCHANGED <<pc, sent, answered, timeouts, drained>>
             /\ UNCHANGED hardwareVars

GiveUp == /\ pc = "poll"
          /\ ~ResponseReady
          /\ GivesUp(retries - 1)
          /\ pc' = "idle"
          /\ retries' = retries - 1
          /\ timeouts' = timeouts + 1
          /\ UNCHANGED <<sent, answered, drained>>
          /\ UNCHANGED hardwareVars

(* IRR is read by an access of its own, after the poll that found it valid. *)
ReadResponse == /\ pc = "read"
                /\ pc' = "idle"
                /\ answered' = irr
                /\ UNCHANGED <<retries, sent, timeouts, drained>>
                /\ UNCHANGED hardwareVars

Driver == \/ LoadCommand
          \/ TriggerCommand
          \/ PollReady
          \/ PollAgain
          \/ GiveUp
          \/ ReadResponse
-----------------------------------------------------------------------------
(* The controller and the codec. The link keeps the order of the verbs.     *)

Respond == /\ inflight # {}
           /\ irr' = Oldest(inflight)
           /\ irv' = TRUE
           /\ icb' = FALSE
           /\ inflight' = inflight \ {Oldest(inflight)}
           /\ UNCHANGED <<driverVars, icw>>

(* A codec that does not exist, is in reset or is powered down never        *)
(* answers; the controller may stop being busy or not.                      *)
Lose == /\ \E v \in inflight : inflight' = inflight \ {v}
        /\ icb' \in {icb, FALSE}
        /\ UNCHANGED <<driverVars, irv, icw, irr>>

Hardware == Respond \/ Lose

(* All MaxVerbs verbs are sent and the caller has the last outcome.         *)
Finished == /\ pc = "idle"
            /\ sent = MaxVerbs
            /\ UNCHANGED vars

Next == SendVerb \/ Driver \/ Hardware \/ Finished

Spec == Init /\ [][Next]_vars

(* The driver's thread runs; the hardware promises nothing.                 *)
FairSpec == Spec /\ WF_vars(Driver)
-----------------------------------------------------------------------------
TypeOK == /\ pc \in {"idle", "load", "trigger", "poll", "read"}
          /\ retries \in 0..MaxRetries
          /\ sent \in 0..MaxVerbs
          /\ answered \in 0..MaxVerbs
          /\ timeouts \in 0..MaxVerbs
          /\ drained \in BOOLEAN
          /\ icb \in BOOLEAN
          /\ irv \in BOOLEAN
          /\ icw \in 0..MaxVerbs
          /\ irr \in 0..MaxVerbs
          /\ inflight \in SUBSET (1..MaxVerbs)

(* The response an exchange returns is to a verb not answered before, and   *)
(* that verb is at most as many verbs old as there were exchanges that      *)
(* returned none: without a timeout every caller gets its own response, and *)
(* each timeout can shift all later responses by one more.                  *)
LagBounded ==
  [][pc = "read" /\ pc' = "idle" =>
       /\ answered < answered'
       /\ answered' <= sent
       /\ sent - answered' <= timeouts]_vars

(* A caller whose verb was sent when no earlier one was in flight gets its  *)
(* own response or none, however many exchanges timed out before: the shift *)
(* is over as soon as what was in flight is gone.                           *)
DrainedMatches ==
  [][pc = "read" /\ pc' = "idle" /\ drained => answered' = sent]_vars

(* Whatever the hardware does, readVerbResponse returns.                    *)
ExchangeEnds == pc # "idle" ~> pc = "idle"

(* Every exchange is one exchange of the abstract channel.                  *)
Channel == INSTANCE VerbChannel WITH waiting <- pc # "idle"

ChannelSpec == Channel!Spec
=============================================================================
