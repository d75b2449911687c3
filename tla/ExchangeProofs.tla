--------------------------- MODULE ExchangeProofs ---------------------------
(***************************************************************************)
(* Proofs about ImmediateCommand, for every number of verbs and every      *)
(* number of retries, and about AmpExchange on top of it, for every        *)
(* amplifier and every setting it starts with. That the steps of           *)
(* AmpExchange are steps of ImmediateCommand carries the invariant of that *)
(* module over; on it rests what the driver makes of the responses.        *)
(***************************************************************************)
EXTENDS AmpExchange, WellFoundedInduction, TLAPS

(* Every verb in flight is newer than the response returned last.          *)
InFlightNewer == \A v \in inflight : answered < v /\ v <= sent

(* Between exchanges the oldest verb in flight is younger than the number  *)
(* of timeouts, so that one more verb leaves it within the bound.          *)
AtRest == pc = "idle" => /\ answered <= sent
                         /\ timeouts <= sent
                         /\ \A v \in inflight : sent - v < timeouts

(* During an exchange whatever can still be latched is within the bound.   *)
InExchange == pc # "idle" => /\ answered < sent
                             /\ timeouts < sent
                             /\ \A v \in inflight : sent - v <= timeouts

(* What is latched was not returned before and is older than what is in    *)
(* flight.                                                                 *)
Latched == pc # "idle" /\ irv => /\ answered < irr
                                 /\ irr <= sent
                                 /\ sent - irr <= timeouts
                                 /\ \A v \in inflight : irr < v

(* Before the trigger the new verb is neither in flight nor answered.      *)
NotTriggered == pc \in {"load", "trigger"} => /\ sent \notin inflight
                                              /\ irv => irr # sent

(* The positions in the code of the polling loop and of the writes.        *)
Position == /\ pc = "poll" => retries # 0
            /\ pc = "trigger" => icw = sent
            /\ pc = "read" => irv
            /\ pc # "idle" => sent # 0

(* Once what was in flight is drained only the new verb can be answered.   *)
Drained == pc # "idle" /\ drained => /\ inflight \subseteq {sent}
                                     /\ irv => irr = sent

IInv == /\ TypeOK
        /\ InFlightNewer
        /\ AtRest
        /\ InExchange
        /\ Latched
        /\ NotTriggered
        /\ Position
        /\ Drained
-----------------------------------------------------------------------------
(* The oldest of some verbs is one of them, and none of them is older.     *)
LEMMA OldestIsLeast ==
  ASSUME NEW S \in SUBSET Nat, S # {}
  PROVE  /\ Oldest(S) \in S
         /\ \A w \in S : Oldest(S) <= w
<1>1. \E x \in S : \A y \in S : ~(<<y, x>> \in OpToRel(<, Nat))
  BY WFMin, NatLessThanWellFounded, Zenon
<1>2. PICK x \in S : \A y \in S : ~(<<y, x>> \in OpToRel(<, Nat))
  BY <1>1
<1>3. \A y \in S : x <= y
  <2> SUFFICES ASSUME NEW y \in S PROVE ~(y < x)
    BY SMT
  <2>1. ~(<<y, x>> \in OpToRel(<, Nat))
    BY <1>2
  <2> QED
    BY <2>1 DEF OpToRel
<1> QED
  BY <1>3 DEF Oldest

(* The invariant holds before the first verb is sent.                      *)
LEMMA InitInvariant == Init => IInv
<1> SUFFICES ASSUME Init PROVE IInv
  OBVIOUS
<1>1. TypeOK
  <2>1. drained \in BOOLEAN /\ icb \in BOOLEAN /\ irv \in BOOLEAN
    BY Zenon DEF Init
  <2>2. 0 \in 0..MaxVerbs /\ 0 \in 0..MaxRetries
    BY MaxVerbsAssumption, MaxRetriesAssumption
  <2> QED
    BY <2>1, <2>2 DEF Init, TypeOK
<1>2. InFlightNewer /\ AtRest /\ InExchange /\ Latched
  BY DEF Init, InFlightNewer, AtRest, InExchange, Latched
<1>3. NotTriggered /\ Position /\ Drained
  BY DEF Init, NotTriggered, Position, Drained
<1> QED
  BY <1>1, <1>2, <1>3 DEF IInv

(* The parts of the invariant that speak of one step, by the kind of step. *)
LEMMA SendVerbInvariant ==
  ASSUME IInv, SendVerb
  PROVE  IInv'
<1> USE MaxVerbsAssumption, MaxRetriesAssumption
<1>1. inflight' \subseteq inflight
  BY DEF SendVerb
<1>2. TypeOK'
  <2>1. drained' \in BOOLEAN /\ icb' \in BOOLEAN /\ irv' \in BOOLEAN
    BY Zenon DEF IInv, TypeOK, SendVerb
  <2>2. sent' \in 0..MaxVerbs
    BY DEF IInv, TypeOK, SendVerb
  <2>3. inflight' \in SUBSET (1..MaxVerbs)
    BY <1>1 DEF IInv, TypeOK
  <2> QED
    BY <2>1, <2>2, <2>3 DEF IInv, TypeOK, SendVerb
<1>3. InFlightNewer'
  BY <1>1 DEF IInv, TypeOK, InFlightNewer, SendVerb
<1>4. AtRest' /\ Latched'
  BY DEF SendVerb, AtRest, Latched
<1>5. InExchange'
  BY <1>1 DEF IInv, TypeOK, AtRest, InExchange, SendVerb
<1>6. NotTriggered'
  BY <1>1 DEF IInv, TypeOK, InFlightNewer, NotTriggered, SendVerb
<1>7. Position'
  BY DEF IInv, TypeOK, Position, SendVerb
<1>8. Drained'
  BY <1>1 DEF Drained, SendVerb
<1> QED
  BY <1>2, <1>3, <1>4, <1>5, <1>6, <1>7, <1>8 DEF IInv

(* The command register is written; the command is not triggered yet.      *)
LEMMA LoadCommandInvariant ==
  ASSUME IInv, LoadCommand
  PROVE  IInv'
<1>1. TypeOK'
  BY DEF IInv, TypeOK, LoadCommand
<1>2. InFlightNewer' /\ AtRest' /\ InExchange' /\ Latched'
  BY DEF IInv, InFlightNewer, AtRest, InExchange, Latched, LoadCommand
<1>3. NotTriggered' /\ Position' /\ Drained'
  BY DEF IInv, NotTriggered, Position, Drained, LoadCommand
<1> QED
  BY <1>1, <1>2, <1>3 DEF IInv

(* The command is triggered: the codec has it from here on.                *)
LEMMA TriggerCommandInvariant ==
  ASSUME IInv, TriggerCommand
  PROVE  IInv'
<1> USE MaxRetriesAssumption
<1>1. icw = sent /\ sent # 0 /\ inflight' \subseteq inflight \cup {sent}
  BY DEF IInv, Position, TriggerCommand
<1>2. sent \in 1..MaxVerbs /\ timeouts \in Nat /\ irr \in Nat
  BY <1>1, MaxVerbsAssumption DEF IInv, TypeOK
<1>3. TypeOK'
  <2>1. inflight' \in SUBSET (1..MaxVerbs)
    BY <1>1, <1>2 DEF IInv, TypeOK
  <2> QED
    BY <2>1 DEF IInv, TypeOK, TriggerCommand
<1>4. InFlightNewer'
  <2>1. answered < sent
    BY DEF IInv, InExchange, TriggerCommand
  <2> QED
    BY <1>1, <1>2, <2>1 DEF IInv, TypeOK, InFlightNewer, TriggerCommand
<1>5. AtRest' /\ InExchange'
  BY <1>1, <1>2 DEF IInv, TypeOK, AtRest, InExchange, TriggerCommand
<1>6. Latched'
  BY <1>1, <1>2 DEF IInv, TypeOK, Latched, NotTriggered, TriggerCommand
<1>7. NotTriggered' /\ Position'
  BY <1>1 DEF NotTriggered, Position, TriggerCommand
<1>8. Drained'
  BY <1>1 DEF IInv, Drained, TriggerCommand
<1> QED
  BY <1>3, <1>4, <1>5, <1>6, <1>7, <1>8 DEF IInv

(* A look at the status register: another look, the end, or a timeout.     *)
LEMMA PollInvariant ==
  ASSUME IInv, PollReady \/ PollAgain \/ GiveUp
  PROVE  IInv'
<1>1. UNCHANGED <<sent, answered, drained, hardwareVars>>
  BY DEF PollReady, PollAgain, GiveUp
<1>2. InFlightNewer'
  BY <1>1 DEF IInv, InFlightNewer, hardwareVars
<1>3. CASE PollReady
  <2>1. TypeOK'
    BY <1>1, <1>3 DEF IInv, TypeOK, PollReady, hardwareVars
  <2>2. AtRest' /\ InExchange' /\ Latched'
    BY <1>1, <1>3
    DEF IInv, AtRest, InExchange, Latched, PollReady, hardwareVars
  <2>3. NotTriggered' /\ Position' /\ Drained'
    BY <1>1, <1>3 DEF IInv, NotTriggered, Position, Drained, PollReady,
                      ResponseReady, hardwareVars
  <2> QED
    BY <1>2, <2>1, <2>2, <2>3 DEF IInv
<1>4. CASE PollAgain
  <2>1. retries \in 1..MaxRetries /\ retries - 1 # 0
    BY <1>4, MaxRetriesAssumption
    DEF IInv, TypeOK, Position, PollAgain, GivesUp
  <2>2. TypeOK'
    BY <1>1, <1>4, <2>1, MaxRetriesAssumption
    DEF IInv, TypeOK, PollAgain, hardwareVars
  <2>3. AtRest' /\ InExchange' /\ Latched'
    BY <1>1, <1>4
    DEF IInv, AtRest, InExchange, Latched, PollAgain, hardwareVars
  <2>4. NotTriggered' /\ Position' /\ Drained'
    BY <1>1, <1>4, <2>1
    DEF IInv, NotTriggered, Position, Drained, PollAgain, hardwareVars
  <2> QED
    BY <1>2, <2>2, <2>3, <2>4 DEF IInv
<1>5. CASE GiveUp
  <2>1. retries - 1 = 0
    BY <1>5 DEF GiveUp, GivesUp
  <2>2. timeouts < sent /\ timeouts \in Nat /\ sent \in 0..MaxVerbs
    BY <1>5, MaxVerbsAssumption DEF IInv, TypeOK, InExchange, GiveUp
  <2>3. TypeOK'
    BY <1>1, <1>5, <2>1, <2>2, MaxVerbsAssumption, MaxRetriesAssumption
    DEF IInv, TypeOK, GiveUp, hardwareVars
  <2>4. AtRest'
    <3>1. answered' <= sent' /\ timeouts' <= sent'
      BY <1>1, <1>5, <2>2 DEF IInv, TypeOK, InExchange, GiveUp
    <3>2. \A v \in inflight' : sent' - v < timeouts'
      BY <1>1, <1>5, <2>2, MaxVerbsAssumption
      DEF IInv, TypeOK, InExchange, GiveUp, hardwareVars
    <3> QED
      BY <3>1, <3>2 DEF AtRest
  <2>5. InExchange' /\ Latched' /\ NotTriggered' /\ Position' /\ Drained'
    BY <1>5 DEF InExchange, Latched, NotTriggered, Position, Drained, GiveUp
  <2> QED
    BY <1>2, <2>3, <2>4, <2>5 DEF IInv
<1> QED
  BY <1>3, <1>4, <1>5

(* The response register is read.                                          *)
LEMMA ReadResponseInvariant ==
  ASSUME IInv, ReadResponse
  PROVE  IInv'
<1>1. /\ irv
      /\ answered < irr
      /\ irr <= sent
      /\ sent - irr <= timeouts
      /\ \A v \in inflight : irr < v
      /\ timeouts < sent
  BY DEF IInv, Position, Latched, InExchange, ReadResponse
<1>2. UNCHANGED <<retries, sent, timeouts, drained, icb, irv, icw, irr, inflight>>
  BY DEF ReadResponse, hardwareVars
<1>3. TypeOK'
  BY <1>2 DEF IInv, TypeOK, ReadResponse
<1>4. InFlightNewer'
  BY <1>1, <1>2 DEF IInv, InFlightNewer, ReadResponse
<1>5. AtRest'
  <2>1. answered' <= sent' /\ timeouts' <= sent'
    BY <1>1, <1>2, MaxVerbsAssumption DEF IInv, TypeOK, ReadResponse
  <2>2. \A v \in inflight' : sent' - v < timeouts'
    BY <1>1, <1>2, MaxVerbsAssumption DEF IInv, TypeOK
  <2> QED
    BY <2>1, <2>2 DEF AtRest
<1>6. InExchange' /\ Latched' /\ NotTriggered' /\ Position' /\ Drained'
  BY DEF InExchange, Latched, NotTriggered, Position, Drained, ReadResponse
<1> QED
  BY <1>3, <1>4, <1>5, <1>6 DEF IInv

(* The codec answers, in time or late.                                     *)
LEMMA RespondInvariant ==
  ASSUME IInv, Respond
  PROVE  IInv'
<1> DEFINE first == Oldest(inflight)
<1>1. /\ first \in inflight
      /\ \A v \in inflight : first <= v
  <2>1. inflight \in SUBSET Nat /\ inflight # {}
    BY MaxVerbsAssumption DEF IInv, TypeOK, Respond
  <2> QED
    BY <2>1, OldestIsLeast
<1>2. /\ irr' = first
      /\ irv' = TRUE
      /\ icb' = FALSE
      /\ inflight' = inflight \ {first}
      /\ UNCHANGED <<pc, retries, sent, answered, timeouts, drained, icw>>
  BY DEF Respond, driverVars
<1> HIDE DEF first
<1>3. TypeOK'
  <2>1. inflight' \in SUBSET (1..MaxVerbs) /\ irr' \in 0..MaxVerbs
    BY <1>1, <1>2, MaxVerbsAssumption DEF IInv, TypeOK
  <2> QED
    BY <1>2, <2>1 DEF IInv, TypeOK
<1>4. InFlightNewer' /\ AtRest' /\ InExchange'
  BY <1>2 DEF IInv, InFlightNewer, AtRest, InExchange
<1>5. Latched'
  <2> SUFFICES ASSUME pc # "idle"
               PROVE  /\ answered < first
                      /\ first <= sent
                      /\ sent - first <= timeouts
                      /\ \A v \in inflight \ {first} : first < v
    BY <1>2 DEF Latched
  <2>1. answered < first /\ first <= sent /\ sent - first <= timeouts
    BY <1>1 DEF IInv, InFlightNewer, InExchange
  <2>2. \A v \in inflight \ {first} : first < v
    BY <1>1, MaxVerbsAssumption DEF IInv, TypeOK
  <2> QED
    BY <2>1, <2>2
<1>6. NotTriggered' /\ Position'
  BY <1>1, <1>2 DEF IInv, NotTriggered, Position
<1>7. Drained'
  BY <1>1, <1>2 DEF IInv, Drained
<1> QED
  BY <1>3, <1>4, <1>5, <1>6, <1>7 DEF IInv

(* The codec never answers.                                                *)
LEMMA LoseInvariant ==
  ASSUME IInv, Lose
  PROVE  IInv'
<1>1. /\ inflight' \subseteq inflight
      /\ UNCHANGED <<pc, retries, sent, answered, timeouts, drained, irv, icw, irr>>
  BY DEF Lose, driverVars
<1>2. TypeOK'
  <2>1. icb' \in BOOLEAN
    BY Zenon DEF IInv, TypeOK, Lose
  <2>2. inflight' \in SUBSET (1..MaxVerbs)
    BY <1>1 DEF IInv, TypeOK
  <2> QED
    BY <1>1, <2>1, <2>2 DEF IInv, TypeOK
<1>3. InFlightNewer' /\ AtRest' /\ InExchange' /\ Latched'
  BY <1>1 DEF IInv, InFlightNewer, AtRest, InExchange, Latched
<1>4. NotTriggered' /\ Position' /\ Drained'
  BY <1>1 DEF IInv, NotTriggered, Position, Drained
<1> QED
  BY <1>2, <1>3, <1>4 DEF IInv

(* Nothing happens.                                                        *)
LEMMA StutterInvariant ==
  ASSUME IInv, UNCHANGED vars
  PROVE  IInv'
  BY DEF IInv, TypeOK, InFlightNewer, AtRest, InExchange, Latched,
         NotTriggered, Position, Drained, vars, driverVars, hardwareVars

(* Every step of the driver and of the hardware keeps the invariant.       *)
LEMMA NextInvariant == IInv /\ [Next]_vars => IInv'
<1> SUFFICES ASSUME IInv, [Next]_vars PROVE IInv'
  OBVIOUS
<1>1. CASE SendVerb
  BY <1>1, SendVerbInvariant
<1>2. CASE LoadCommand
  BY <1>2, LoadCommandInvariant
<1>3. CASE TriggerCommand
  BY <1>3, TriggerCommandInvariant
<1>4. CASE PollReady \/ PollAgain \/ GiveUp
  BY <1>4, PollInvariant
<1>5. CASE ReadResponse
  BY <1>5, ReadResponseInvariant
<1>6. CASE Respond
  BY <1>6, RespondInvariant
<1>7. CASE Lose
  BY <1>7, LoseInvariant
<1>8. CASE Finished \/ UNCHANGED vars
  BY <1>8, StutterInvariant DEF Finished
<1> QED
  BY <1>1, <1>2, <1>3, <1>4, <1>5, <1>6, <1>7, <1>8
  DEF Next, Driver, Hardware

(* IInv is an inductive invariant of the immediate command exchange.       *)
THEOREM Invariance == Spec => []IInv
<1> QED
  BY InitInvariant, NextInvariant, PTL DEF Spec

(* Type correctness: in particular the retry counter, an unsigned size_t,  *)
(* never wraps below zero, for every positive MaxRetries.                 *)
THEOREM TypeCorrect == Spec => []TypeOK
<1>1. IInv => TypeOK
  BY DEF IInv
<1> QED
  BY Invariance, <1>1, PTL

(* A response that is returned is newer than every response returned       *)
(* before and at most as many verbs old as there were timeouts.            *)
THEOREM LagIsBounded == Spec => LagBounded
<1>1. IInv /\ [Next]_vars =>
        [pc = "read" /\ pc' = "idle" =>
           /\ answered < answered'
           /\ answered' <= sent
           /\ sent - answered' <= timeouts]_vars
  <2> SUFFICES ASSUME IInv, Next, pc = "read", pc' = "idle"
               PROVE  /\ answered < answered'
                      /\ answered' <= sent
                      /\ sent - answered' <= timeouts
    OBVIOUS
  <2>1. ReadResponse
    BY DEF Next, SendVerb, Driver, LoadCommand, TriggerCommand, PollReady,
           PollAgain, GiveUp, Hardware, Respond, Lose, Finished, driverVars
  <2> QED
    BY <2>1 DEF IInv, Position, Latched, ReadResponse
<1> QED
  BY Invariance, <1>1, PTL DEF Spec, LagBounded

(* A verb sent when nothing was in flight gets its own response or none.   *)
THEOREM DrainedVerbMatches == Spec => DrainedMatches
<1>1. IInv /\ [Next]_vars =>
        [pc = "read" /\ pc' = "idle" /\ drained => answered' = sent]_vars
  <2> SUFFICES ASSUME IInv, Next, pc = "read", pc' = "idle", drained
               PROVE  answered' = sent
    OBVIOUS
  <2>1. ReadResponse
    BY DEF Next, SendVerb, Driver, LoadCommand, TriggerCommand, PollReady,
           PollAgain, GiveUp, Hardware, Respond, Lose, Finished, driverVars
  <2> QED
    BY <2>1 DEF IInv, Position, Drained, ReadResponse
<1> QED
  BY Invariance, <1>1, PTL DEF Spec, DrainedMatches

(* A step of an exchange is a step of the abstract channel or none: the    *)
(* exchange starts with sendVerb, and ends when the caller gets a response *)
(* or gives up.                                                            *)
LEMMA ChannelStep == IInv /\ [Next]_vars => [Channel!Next]_(Channel!channelVars)
<1> SUFFICES ASSUME IInv, [Next]_vars
             PROVE  Channel!Next \/ UNCHANGED Channel!channelVars
  OBVIOUS
<1>1. CASE SendVerb
  <2>1. Channel!Request
    BY <1>1 DEF SendVerb, Channel!Request
  <2> QED
    BY <2>1 DEF Channel!Next
<1>2. CASE ReadResponse
  <2>1. /\ pc = "read" /\ pc' = "idle"
        /\ answered' = irr
        /\ UNCHANGED <<sent, timeouts>>
    BY <1>2 DEF ReadResponse
  <2>2. irr \in (answered + 1)..sent /\ sent - irr <= timeouts
    BY <2>1, MaxVerbsAssumption DEF IInv, TypeOK, Position, Latched
  <2>3. Channel!Deliver
    BY <2>1, <2>2 DEF Channel!Deliver
  <2> QED
    BY <2>3 DEF Channel!Next
<1>3. CASE GiveUp
  <2>1. Channel!NoAnswer
    BY <1>3 DEF GiveUp, Channel!NoAnswer
  <2> QED
    BY <2>1 DEF Channel!Next
<1>4. CASE LoadCommand \/ TriggerCommand \/ PollReady \/ PollAgain
  BY <1>4 DEF LoadCommand, TriggerCommand, PollReady, PollAgain,
              Channel!channelVars
<1>5. CASE Hardware \/ Finished \/ UNCHANGED vars
  BY <1>5 DEF Hardware, Respond, Lose, Finished, vars, driverVars,
              Channel!channelVars
<1> QED
  BY <1>1, <1>2, <1>3, <1>4, <1>5 DEF Next, Driver

(* The register protocol implements the abstract channel.                  *)
THEOREM ImplementsChannel == Spec => ChannelSpec
<1>1. Init => Channel!Init
  BY DEF Init, Channel!Init
<1> QED
  BY Invariance, ChannelStep, <1>1, PTL DEF Spec, ChannelSpec, Channel!Spec
-----------------------------------------------------------------------------
(* AmpExchange. *)

Verbs == {"none", "cap", "right", "left", "setInput", "setOutput"}

(* An amplifier of the database; its 0 dB step has no mute bit.            *)
IsAmp(a) == /\ a = [valid |-> a.valid, step |-> a.step, left |-> a.left, right |-> a.right]
            /\ a.step \in 0..127

(* The types, and what the gain of a verb may be.                          *)
TypeInv == /\ step \in Verbs /\ (pc # "idle" => step # "none")
           /\ gain \in 0..127
           /\ IsAmp(amp) /\ IsAmp(reading)
           /\ asked \in [0..MaxVerbs -> [verb : Verbs, gain : 0..127]]
           /\ setting \in Setting
           /\ reply \in 0..255

(* The verb that an exchange is about is the caller's.                     *)
AskedInv == pc # "idle" => asked[sent] = [verb |-> step, gain |-> gain]

(* The first verb of the task has been sent, and the task has not ended.   *)
Underway == step # "none" /\ ~(BeginsTask /\ pc = "idle")

(* In a clean task nothing else is ever in flight.                         *)
AloneInv == clean /\ Underway => IF pc = "idle" THEN inflight = {} ELSE drained

(* In a clean task the response is the codec's, and it is true still.      *)
ReplyInv == clean /\ Underway /\ pc # "idle" /\ irv =>
              IF step = "setOutput" THEN setting = Both(gain) ELSE reply = Answer(step)

(* In a clean task what has been read is true.                             *)
ReadingInv ==
  clean /\ Underway /\ step \in {"right", "left"} =>
    reading = [valid |-> TRUE, step |-> AmpCap % 128, left |-> 0,
               right |-> IF step = "left" THEN setting.right ELSE 0]

AmpInv == IInv /\ TypeInv /\ AskedInv /\ AloneInv /\ ReplyInv /\ ReadingInv

(* Every step of the composition is one of the exchange or none.           *)
LEMMA AmpSteps == [AmpNext]_ampVars => [Next]_vars
  BY DEF AmpNext, Refresh, Unmute, Send, AmpDriver, Waits, TakeResponse, TakeNone,
         CodecResponds, CodecLoses, AmpFinished, Next, Driver, Hardware, ampVars

(* A verb the codec executes leaves the setting or the verb's own gain.    *)
LEMMA ExecutedSetting ==
  ASSUME TypeInv, NEW v \in 0..MaxVerbs
  PROVE  /\ Executed(v) \in Setting
         /\ Executed(v) = setting \/ (Executed(v).left < 128 /\ Executed(v).right < 128)
         /\ asked[v].verb # "setOutput" => Executed(v) = setting
<1>1. PICK g \in 0..127 : asked[v].gain = g
  BY DEF TypeInv
<1>2. Both(asked[v].gain) \in Setting
  <2>1. g \in 0..255
    OBVIOUS
  <2> QED
    BY <1>1, <2>1 DEF Both, Setting
<1>3. Both(asked[v].gain).left < 128 /\ Both(asked[v].gain).right < 128
  BY <1>1 DEF Both
<1>4. Executed(v) = IF asked[v].verb = "setOutput" THEN Both(asked[v].gain) ELSE setting
  BY DEF Executed
<1>5. setting \in Setting
  BY DEF TypeInv
<1> QED
  BY <1>2, <1>3, <1>4, <1>5

(* In a clean task only the last verb sent can be in flight, and nothing is *)
(* once its response is latched.                                            *)
LEMMA CleanInFlight ==
  ASSUME AmpInv, clean, Underway, pc # "idle"
  PROVE  /\ inflight \subseteq {sent}
         /\ irv => irr = sent /\ inflight = {}
<1>1. drained
  BY DEF AmpInv, AloneInv
<1>2. /\ inflight \subseteq {sent}
      /\ irv => irr = sent /\ \A v \in inflight : irr < v
  BY <1>1 DEF AmpInv, IInv, Drained, Latched
<1>3. sent \in Nat
  BY MaxVerbsAssumption DEF AmpInv, IInv, TypeOK
<1> QED
  BY <1>2, <1>3

(* Nothing was asked of the codec, and the driver's own values are right.  *)
LEMMA AmpInvInit == AmpInit => AmpInv
<1> SUFFICES ASSUME AmpInit PROVE AmpInv
  OBVIOUS
<1>1. IInv /\ pc = "idle" /\ step = "cap"
  BY InitInvariant DEF AmpInit, Init
<1>2. IsAmp(DefaultAmp)
  BY DEF IsAmp, DefaultAmp
<1>3. asked \in [0..MaxVerbs -> [verb : Verbs, gain : 0..127]]
  BY DEF AmpInit, Verbs
<1>4. TypeInv
  BY <1>1, <1>2, <1>3, PowerAssumption DEF AmpInit, TypeInv, Verbs
<1>5. ~Underway
  BY <1>1 DEF Underway, BeginsTask
<1> QED
  BY <1>1, <1>4, <1>5 DEF AmpInv, AskedInv, AloneInv, ReplyInv, ReadingInv

(* A command begins a task; nothing of it is underway.                     *)
LEMMA CommandInvariant == AmpInv /\ IInv' /\ (Refresh \/ Unmute) => AmpInv'
<1> SUFFICES ASSUME AmpInv, IInv', Refresh \/ Unmute PROVE AmpInv'
  OBVIOUS
<1>1. /\ pc = "idle" /\ step' \in {"cap", "setInput"}
      /\ gain' \in {gain, amp.step, 127}
      /\ UNCHANGED <<vars, reading, amp, codecVars, clean>>
  BY DEF Refresh, Unmute, Ready
<1>2. pc' = "idle"
  BY <1>1 DEF vars, driverVars
<1>3. TypeInv'
  <2>1. step' \in Verbs /\ gain' \in 0..127
    <3>1. amp.step \in 0..127 /\ gain \in 0..127
      BY DEF AmpInv, TypeInv, IsAmp
    <3> QED
      BY <1>1, <3>1 DEF Verbs
  <2>2. IsAmp(amp)' /\ IsAmp(reading)'
    BY <1>1 DEF AmpInv, TypeInv, IsAmp
  <2>3. UNCHANGED <<asked, setting, reply>>
    BY <1>1 DEF codecVars
  <2> QED
    BY <1>2, <2>1, <2>2, <2>3 DEF AmpInv, TypeInv
<1>4. ~Underway'
  BY <1>1, <1>2 DEF Underway, BeginsTask
<1> QED
  BY <1>2, <1>3, <1>4 DEF AmpInv, AskedInv, AloneInv, ReplyInv, ReadingInv

(* A verb that is sent carries the caller's gain; if the task is clean     *)
(* nothing is in flight that the controller could drop.                    *)
LEMMA SendInvariant == AmpInv /\ IInv' /\ Send => AmpInv'
<1> SUFFICES ASSUME AmpInv, IInv', Send PROVE AmpInv'
  OBVIOUS
<1>1. /\ pc = "idle" /\ pc' = "load" /\ step # "none"
      /\ sent' \in 1..MaxVerbs
      /\ irv' = FALSE /\ drained' = (inflight = {})
      /\ asked' = [asked EXCEPT ![sent'] = [verb |-> step, gain |-> gain]]
      /\ setting' \in {setting} \cup {Executed(v) : v \in inflight \ inflight'}
      /\ clean' = (IF BeginsTask THEN inflight = {} ELSE clean)
      /\ UNCHANGED <<step, gain, reading, amp, reply>>
  BY DEF Send, SendVerb, callerVars, AmpInv, IInv, TypeOK
<1>2. inflight \in SUBSET (0..MaxVerbs)
  BY DEF AmpInv, IInv, TypeOK
<1>3. setting' \in Setting
  BY <1>1, <1>2, ExecutedSetting DEF AmpInv, TypeInv
<1>4. asked' \in [0..MaxVerbs -> [verb : Verbs, gain : 0..127]]
  <2>1. [verb |-> step, gain |-> gain] \in [verb : Verbs, gain : 0..127]
    BY DEF AmpInv, TypeInv
  <2> QED
    BY <1>1, <2>1 DEF AmpInv, TypeInv
<1>5. TypeInv'
  <2>1. IsAmp(amp)' /\ IsAmp(reading)'
    BY <1>1 DEF AmpInv, TypeInv, IsAmp
  <2> QED
    BY <1>1, <1>3, <1>4, <2>1 DEF AmpInv, TypeInv
<1>6. AskedInv'
  BY <1>1, <1>4 DEF AmpInv, TypeInv, AskedInv
<1>7. ASSUME clean' PROVE inflight = {}
  BY <1>1, <1>7 DEF AmpInv, AloneInv, Underway
<1>8. AloneInv' /\ ReplyInv'
  BY <1>1, <1>7 DEF AloneInv, ReplyInv
<1>9. ReadingInv'
  <2> SUFFICES ASSUME clean', step \in {"right", "left"}
               PROVE  (reading = [valid |-> TRUE, step |-> AmpCap % 128, left |-> 0,
                                  right |-> IF step = "left" THEN setting.right ELSE 0])'
    BY <1>1 DEF ReadingInv
  <2>1. setting' = setting
    BY <1>1, <1>7
  <2>2. clean /\ Underway
    BY <1>1 DEF Underway, BeginsTask
  <2> QED
    BY <1>1, <2>1, <2>2 DEF AmpInv, ReadingInv
<1> QED
  BY <1>5, <1>6, <1>8, <1>9 DEF AmpInv

(* The accesses in between change nothing the caller or the codec has.     *)
LEMMA WaitsInvariant == AmpInv /\ IInv' /\ Waits => AmpInv'
<1> SUFFICES ASSUME AmpInv, IInv', Waits PROVE AmpInv'
  OBVIOUS
<1>1. /\ pc # "idle" /\ pc' # "idle"
      /\ UNCHANGED <<sent, irv, drained, step, gain, reading, amp, asked, setting, reply, clean>>
  BY DEF Waits, LoadCommand, TriggerCommand, PollReady, PollAgain, callerVars, codecVars,
         hardwareVars
<1>2. IsAmp(amp)' /\ IsAmp(reading)'
  BY <1>1 DEF AmpInv, TypeInv, IsAmp
<1>3. TypeInv' /\ AskedInv'
  BY <1>1, <1>2 DEF AmpInv, TypeInv, AskedInv
<1>4. AloneInv'
  BY <1>1 DEF AmpInv, AloneInv, Underway, BeginsTask
<1>5. ReplyInv'
  BY <1>1 DEF AmpInv, ReplyInv, Underway, BeginsTask, Both, Answer
<1>6. ReadingInv'
  BY <1>1 DEF AmpInv, ReadingInv, Underway, BeginsTask
<1> QED
  BY <1>3, <1>4, <1>5, <1>6 DEF AmpInv

(* In a clean task the response that is latched is to the task's own verb. *)
LEMMA CodecRespondsInvariant == AmpInv /\ IInv' /\ CodecResponds => AmpInv'
<1> SUFFICES ASSUME AmpInv, IInv', CodecResponds PROVE AmpInv'
  OBVIOUS
<1>1. /\ irr' \in inflight /\ inflight' \subseteq inflight
      /\ irv' = TRUE
      /\ reply' = Answer(asked[irr'].verb)
      /\ setting' = Executed(irr')
      /\ UNCHANGED <<pc, sent, drained, step, gain, reading, amp, asked, clean>>
  <2>1. inflight \in SUBSET Nat /\ inflight # {}
    BY MaxVerbsAssumption DEF AmpInv, IInv, TypeOK, CodecResponds, Respond
  <2>2. Oldest(inflight) \in inflight
    BY <2>1, OldestIsLeast
  <2> QED
    BY <2>2 DEF CodecResponds, Respond, driverVars, callerVars
<1>2. irr' \in 0..MaxVerbs
  BY <1>1 DEF AmpInv, IInv, TypeOK
<1>3. setting' \in Setting /\ reply' \in 0..255
  <2>1. setting' \in Setting
    BY <1>1, <1>2, ExecutedSetting DEF AmpInv
  <2>2. setting \in Setting
    BY DEF AmpInv, TypeInv
  <2>3. reply' \in 0..255
    BY <1>1, <2>2, CapAssumption DEF Answer, Setting
  <2> QED
    BY <2>1, <2>3
<1>4. TypeInv' /\ AskedInv'
  <2>1. IsAmp(amp)' /\ IsAmp(reading)'
    BY <1>1 DEF AmpInv, TypeInv, IsAmp
  <2> QED
    BY <1>1, <1>3, <2>1 DEF AmpInv, TypeInv, AskedInv
<1>5. AloneInv'
  BY <1>1 DEF AmpInv, AloneInv, Underway, BeginsTask
<1>6. ASSUME clean, Underway
      PROVE  /\ pc # "idle" /\ asked[irr'].verb = step
             /\ IF step = "setOutput" THEN setting' = Both(gain)
                ELSE setting' = setting /\ reply' = Answer(step)
  <2>1. pc # "idle"
    BY <1>1, <1>6 DEF AmpInv, AloneInv
  <2>2. irr' = sent
    BY <1>1, <1>6, <2>1, CleanInFlight
  <2>3. asked[irr'] = [verb |-> step, gain |-> gain]
    BY <2>1, <2>2 DEF AmpInv, AskedInv
  <2> QED
    BY <1>1, <2>1, <2>3 DEF Executed
<1>7. ReplyInv'
  BY <1>1, <1>6 DEF ReplyInv, Underway, BeginsTask, Answer, Both
<1>8. ReadingInv'
  BY <1>1, <1>6 DEF AmpInv, ReadingInv, Underway, BeginsTask
<1> QED
  BY <1>4, <1>5, <1>7, <1>8 DEF AmpInv

(* In a clean task a verb is lost only before its response is latched, and  *)
(* reading verbs leave the setting as it is.                               *)
LEMMA CodecLosesInvariant == AmpInv /\ IInv' /\ CodecLoses => AmpInv'
<1> SUFFICES ASSUME AmpInv, IInv', CodecLoses PROVE AmpInv'
  OBVIOUS
<1>1. PICK v \in inflight : inflight' = inflight \ {v}
  BY DEF CodecLoses, Lose
<1>2. UNCHANGED <<pc, sent, drained, irv, irr, step, gain, reading, amp, asked, reply, clean>>
  BY DEF CodecLoses, Lose, driverVars, callerVars
<1>3. inflight \in SUBSET (0..MaxVerbs)
  BY DEF AmpInv, IInv, TypeOK
<1>4. setting' = setting \/ \E w \in inflight : setting' = Executed(w)
  BY DEF CodecLoses
<1>5. setting' \in Setting
  <2>1. setting \in Setting
    BY DEF AmpInv, TypeInv
  <2> QED
    BY <1>3, <1>4, <2>1, ExecutedSetting DEF AmpInv
<1>6. TypeInv' /\ AskedInv'
  <2>1. IsAmp(amp)' /\ IsAmp(reading)'
    BY <1>2 DEF AmpInv, TypeInv, IsAmp
  <2> QED
    BY <1>2, <1>5, <2>1 DEF AmpInv, TypeInv, AskedInv
<1>7. AloneInv'
  BY <1>1, <1>2 DEF AmpInv, AloneInv, Underway, BeginsTask
<1>8. ASSUME clean, Underway
      PROVE  ~irv /\ (step \in {"right", "left"} => setting' = setting)
  <2>1. pc # "idle"
    BY <1>1, <1>8 DEF AmpInv, AloneInv
  <2>2. inflight \subseteq {sent} /\ ~irv
    BY <1>1, <1>8, <2>1, CleanInFlight
  <2>3. sent \in 0..MaxVerbs /\ asked[sent].verb = step
    BY <2>1 DEF AmpInv, IInv, TypeOK, AskedInv
  <2>4. step \in {"right", "left"} => Executed(sent) = setting
    BY <2>3 DEF Executed
  <2> QED
    BY <1>4, <2>2, <2>4
<1>9. ReplyInv'
  BY <1>2, <1>8 DEF ReplyInv, Underway, BeginsTask
<1>10. ReadingInv'
  BY <1>2, <1>8 DEF AmpInv, ReadingInv, Underway, BeginsTask
<1> QED
  BY <1>6, <1>7, <1>9, <1>10 DEF AmpInv

(* Whatever was taken for its answer, the caller's values are of their     *)
(* types: the 0 dB step has no mute bit.                                   *)
LEMMA ResultTypes ==
  ASSUME AmpInv, NEW r \in (0..255) \cup {NoResponse}, Result(r), pc # "idle"
  PROVE  step' \in Verbs \ {"cap", "setInput"} /\ IsAmp(amp)' /\ IsAmp(reading)'
<1>1. IsAmp(amp) /\ IsAmp(reading)
  BY DEF AmpInv, TypeInv
<1>2. IsAmp(DefaultAmp)
  BY DEF IsAmp, DefaultAmp
<1>3. CASE CapResult(r)
  <2>1. CASE ValueOr(r, 0) = 0
    BY <1>1, <1>2, <1>3, <2>1 DEF CapResult, Verbs, IsAmp
  <2>2. CASE ValueOr(r, 0) # 0
    <3>1. r \in 0..255
      BY <2>2 DEF ValueOr, NoResponse
    <3>2. Step(r) \in 0..127
      BY <3>1 DEF Step
    <3>3. reading' = [valid |-> TRUE, step |-> Step(r), left |-> 0, right |-> 0]
      BY <1>3, <2>2 DEF CapResult, DefaultAmp
    <3>4. IsAmp(reading)'
      BY <3>2, <3>3 DEF IsAmp
    <3>5. step' = "right" /\ amp' = amp
      BY <1>3, <2>2 DEF CapResult
    <3> QED
      BY <1>1, <3>4, <3>5 DEF Verbs, IsAmp
  <2> QED
    BY <2>1, <2>2
<1>4. CASE RightResult(r)
  <2>1. step' = "left" /\ amp' = amp /\ \E x : reading' = [reading EXCEPT !.right = x]
    BY <1>4 DEF RightResult
  <2>2. IsAmp(reading)'
    BY <1>1, <2>1 DEF IsAmp
  <2> QED
    BY <1>1, <2>1, <2>2 DEF Verbs, IsAmp
<1>5. CASE LeftResult(r)
  <2>1. step' = "none" /\ reading' = DefaultAmp /\ \E x : amp' = [reading EXCEPT !.left = x]
    BY <1>5 DEF LeftResult
  <2>2. IsAmp(amp)'
    BY <1>1, <2>1 DEF IsAmp
  <2> QED
    BY <1>2, <2>1, <2>2 DEF Verbs, IsAmp
<1>6. CASE SetResult
  BY <1>1, <1>6 DEF SetResult, Verbs, IsAmp
<1> QED
  BY <1>3, <1>4, <1>5, <1>6 DEF Result

(* The types at the end of an exchange, answered or not.                   *)
LEMMA ExchangeEndTypes ==
  ASSUME AmpInv, NEW r \in (0..255) \cup {NoResponse}, Result(r), pc # "idle", pc' = "idle"
  PROVE  TypeInv' /\ AskedInv' /\ ReplyInv' /\ (Underway' <=> step' # "none")
<1>1. step' \in Verbs \ {"cap", "setInput"} /\ IsAmp(amp)' /\ IsAmp(reading)'
  BY ResultTypes
<1>2. UNCHANGED <<gain, asked, setting, reply>>
  BY DEF Result, codecVars
<1> QED
  BY <1>1, <1>2 DEF AmpInv, TypeInv, AskedInv, ReplyInv, Underway, BeginsTask

(* In a clean task the response taken is true: what is read adds up to the *)
(* amplifier.                                                              *)
LEMMA TakeResponseInvariant == AmpInv /\ IInv' /\ TakeResponse => AmpInv'
<1> SUFFICES ASSUME AmpInv, IInv', TakeResponse PROVE AmpInv'
  OBVIOUS
<1>1. /\ pc = "read" /\ pc' = "idle" /\ irv /\ Result(reply)
      /\ UNCHANGED <<gain, setting, inflight, clean>>
  BY DEF TakeResponse, ReadResponse, Result, hardwareVars, codecVars, AmpInv, IInv, Position
<1>2. reply \in 0..255
  BY DEF AmpInv, TypeInv
<1>3. TypeInv' /\ AskedInv' /\ ReplyInv' /\ (Underway' <=> step' # "none")
  BY <1>1, <1>2, ExchangeEndTypes
<1>4. Underway
  BY <1>1 DEF Underway, AmpInv, TypeInv
<1>5. AloneInv'
  BY <1>1, <1>4, CleanInFlight DEF AloneInv
<1>6. ReadingInv'
  <2> SUFFICES ASSUME clean, step' \in {"right", "left"}
               PROVE  reading' = [valid |-> TRUE, step |-> AmpCap % 128, left |-> 0,
                                  right |-> IF step' = "left" THEN setting.right ELSE 0]
    BY <1>1 DEF ReadingInv
  <2>1. ValueOr(reply, 0) = reply /\ \A x : ValueOr(reply, x) = reply
    BY <1>2 DEF ValueOr, NoResponse
  <2>2. step = "cap" \/ step = "right"
    BY <1>1 DEF Result, CapResult, RightResult, LeftResult, SetResult
  <2>3. reply = Answer(step)
    BY <1>1, <1>4, <2>2 DEF AmpInv, ReplyInv
  <2>4. CASE step = "cap"
    <3>1. reply = AmpCap /\ reply # 0
      BY <2>3, <2>4, CapAssumption DEF Answer
    <3> QED
      BY <1>1, <2>1, <2>4, <3>1
      DEF Result, CapResult, RightResult, LeftResult, SetResult, Step, DefaultAmp
  <2>5. CASE step = "right"
    <3>1. reply = setting.right
      BY <2>3, <2>5 DEF Answer
    <3>2. step' = "left" /\ reading' = [reading EXCEPT !.right = setting.right]
      BY <1>1, <2>1, <2>5, <3>1 DEF Result, CapResult, RightResult, LeftResult, SetResult
    <3>3. reading = [valid |-> TRUE, step |-> AmpCap % 128, left |-> 0, right |-> 0]
      BY <1>4, <2>5 DEF AmpInv, ReadingInv
    <3> QED
      BY <3>2, <3>3
  <2> QED
    BY <2>2, <2>4, <2>5
<1> QED
  BY <1>3, <1>5, <1>6 DEF AmpInv

(* A task with a verb that was not answered is not clean.                  *)
LEMMA TakeNoneInvariant == AmpInv /\ IInv' /\ TakeNone => AmpInv'
<1> SUFFICES ASSUME AmpInv, IInv', TakeNone PROVE AmpInv'
  OBVIOUS
<1>1. pc = "poll" /\ pc' = "idle" /\ Result(NoResponse) /\ clean' = FALSE
  BY DEF TakeNone, GiveUp
<1>2. TypeInv' /\ AskedInv' /\ ReplyInv'
  BY <1>1, ExchangeEndTypes
<1> QED
  BY <1>1, <1>2 DEF AmpInv, AloneInv, ReadingInv

(* Nothing changes.                                                        *)
LEMMA AmpStutterInvariant ==
  ASSUME AmpInv, IInv', UNCHANGED ampVars
  PROVE  AmpInv'
<1>1. /\ UNCHANGED <<pc, sent, drained, irv, inflight>>
      /\ UNCHANGED <<step, gain, reading, amp, asked, setting, reply, clean>>
  BY DEF ampVars, vars, driverVars, hardwareVars, callerVars, codecVars
<1>2. IsAmp(amp)' /\ IsAmp(reading)'
  BY <1>1 DEF AmpInv, TypeInv, IsAmp
<1>3. TypeInv' /\ AskedInv'
  BY <1>1, <1>2 DEF AmpInv, TypeInv, AskedInv
<1>4. AloneInv'
  BY <1>1 DEF AmpInv, AloneInv, Underway, BeginsTask
<1>5. ReplyInv'
  BY <1>1 DEF AmpInv, ReplyInv, Underway, BeginsTask, Both, Answer
<1>6. ReadingInv'
  BY <1>1 DEF AmpInv, ReadingInv, Underway, BeginsTask
<1> QED
  BY <1>3, <1>4, <1>5, <1>6 DEF AmpInv
-----------------------------------------------------------------------------
(* The invariant of the composition: that of the exchange carries over.    *)
THEOREM AmpInvariance == AmpSpec => []AmpInv
<1>1. AmpInit => AmpInv
  BY AmpInvInit
<1>2. AmpInv /\ [AmpNext]_ampVars => AmpInv'
  <2> SUFFICES ASSUME AmpInv, [AmpNext]_ampVars PROVE AmpInv'
    OBVIOUS
  <2>1. IInv'
    BY AmpSteps, NextInvariant DEF AmpInv
  <2> QED
    BY <2>1, CommandInvariant, SendInvariant, WaitsInvariant, TakeResponseInvariant,
       TakeNoneInvariant, CodecRespondsInvariant, CodecLosesInvariant, AmpStutterInvariant
    DEF AmpNext, AmpDriver, AmpFinished
<1> QED
  BY <1>1, <1>2, PTL DEF AmpSpec

(* The composition implements the exchange: whatever the callers make of   *)
(* the responses, the verbs are exchanged as in ImmediateCommand.          *)
THEOREM AmpImplements == AmpSpec => Spec
<1>1. AmpInit => Init
  BY DEF AmpInit
<1> QED
  BY <1>1, AmpSteps, PTL DEF AmpSpec, Spec

(* An unmute never mutes: whatever response was taken for the capabilities, *)
(* the gain that every later verb carries has no mute bit.                 *)
THEOREM UnmuteNeverMutes == AmpSpec => NeverMutes
<1>1. AmpInv /\ [AmpNext]_ampVars
        => [setting' # setting => setting'.left < 128 /\ setting'.right < 128]_ampVars
  <2> SUFFICES ASSUME AmpInv, AmpNext, setting' # setting
               PROVE  setting'.left < 128 /\ setting'.right < 128
    OBVIOUS
  <2>1. inflight \in SUBSET (0..MaxVerbs) /\ inflight \in SUBSET Nat
    BY MaxVerbsAssumption DEF AmpInv, IInv, TypeOK
  <2>2. \E v \in inflight : setting' = Executed(v)
    <3>1. CASE Send \/ CodecLoses
      BY <3>1 DEF Send, CodecLoses
    <3>2. CASE CodecResponds
      BY <2>1, <3>2, OldestIsLeast DEF CodecResponds, Respond
    <3> QED
      BY <3>1, <3>2 DEF AmpNext, Refresh, Unmute, AmpDriver, Waits, TakeResponse, TakeNone,
                        Result, AmpFinished, ampVars, codecVars
  <2> QED
    BY <2>1, <2>2, ExecutedSetting DEF AmpInv
<1> QED
  BY <1>1, AmpInvariance, PTL DEF AmpSpec, NeverMutes

(* A task that began with nothing in flight, and whose verbs were all       *)
(* answered, did what it is for: the database has the amplifier as it is,   *)
(* or both sides are at the gain.                                          *)
THEOREM CleanTasks == AmpSpec => CleanTaskExact
<1> DEFINE Exact == IF step = "setOutput" THEN setting = Both(gain)
                    ELSE amp' = [valid |-> TRUE, step |-> AmpCap % 128,
                                 left |-> setting.left, right |-> setting.right]
<1>1. AmpInv /\ [AmpNext]_ampVars => [TaskEnds /\ clean' => Exact]_ampVars
  <2> SUFFICES ASSUME AmpInv, AmpNext, TaskEnds, clean' PROVE Exact
    OBVIOUS
  <2>1. TakeResponse
    BY DEF AmpNext, Refresh, Unmute, Ready, Send, AmpDriver, Waits, TakeNone, CodecResponds,
           CodecLoses, AmpFinished, ampVars, callerVars, TaskEnds
  <2>2. /\ pc = "read" /\ irv /\ clean /\ Underway
        /\ CapResult(reply) \/ RightResult(reply) \/ LeftResult(reply) \/ SetResult
        /\ step' = "none"
    BY <2>1 DEF TakeResponse, ReadResponse, Result, AmpInv, IInv, Position, TypeInv, Underway,
                TaskEnds
  <2>3. IF step = "setOutput" THEN setting = Both(gain) ELSE reply = Answer(step)
    BY <2>2 DEF AmpInv, ReplyInv
  <2>4. reply \in 0..255
    BY DEF AmpInv, TypeInv
  <2>5. ~(step = "cap")
    BY <2>2, <2>3, <2>4, CapAssumption
    DEF CapResult, RightResult, LeftResult, SetResult, Answer, ValueOr, NoResponse
  <2>6. step = "left" \/ step = "setOutput"
    BY <2>2, <2>5 DEF CapResult, RightResult, LeftResult, SetResult
  <2>7. CASE step = "left"
    <3>1. ValueOr(reply, reading.left) = setting.left
      BY <2>3, <2>4, <2>7 DEF Answer, ValueOr, NoResponse
    <3>2. amp' = [reading EXCEPT !.left = setting.left]
      BY <2>2, <2>7, <3>1 DEF CapResult, RightResult, LeftResult, SetResult
    <3>3. reading = [valid |-> TRUE, step |-> AmpCap % 128, left |-> 0,
                     right |-> setting.right]
      BY <2>2, <2>7 DEF AmpInv, ReadingInv
    <3> QED
      BY <2>7, <3>2, <3>3
  <2> QED
    BY <2>3, <2>6, <2>7
<1> QED
  BY <1>1, AmpInvariance, PTL DEF AmpSpec, CleanTaskExact
=============================================================================
