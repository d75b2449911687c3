---------------------------- MODULE AmpExchange ----------------------------
(***************************************************************************)
(* What the driver makes of the answers of ImmediateCommand, late ones     *)
(* included: getOutputAmplifierInfo, called by the scan and by the refresh *)
(* command, and the unmute command, on one node whose only amplifier is    *)
(* its output amplifier. Each action of ImmediateCommand is joined by what *)
(* the caller or the codec does at the same time.                          *)
(*                                                                         *)
(* WidgetDatabase has the whole database and takes every answer to be the  *)
(* codec's own; here the answer is what the controller has latched.        *)
(***************************************************************************)
EXTENDS ImmediateCommand, Integers

CONSTANTS
  AmpCap,       \* the output amplifier's capabilities, bits 0..7; not 0
  Power         \* its setting when the program starts

Setting == [left : 0..255, right : 0..255]    \* bit 7 is set if muted

ASSUME CapAssumption == AmpCap \in 1..255
ASSUME PowerAssumption == Power \in Setting

DefaultAmp == [valid |-> FALSE, step |-> 0, left |-> 0, right |-> 0]

VARIABLES
  step,        \* the verb of the task that is sent next or waited for
  gain,        \* gainSetting of the unmute command
  reading,     \* amp of getOutputAmplifierInfo
  amp,         \* m_outputAmp of the node's widget
  asked,       \* the verbs sent, with the gain they carry
  setting,     \* the codec: the amplifier's setting
  reply,       \* the contents of IRR
  clean        \* history: nothing was in flight when the task's first verb
               \* was sent, and all its verbs were answered

callerVars == <<step, gain, reading, amp>>
codecVars  == <<asked, setting, reply>>
ampVars    == <<vars, callerVars, codecVars, clean>>

AmpInit == /\ Init
           /\ step = "cap"             \* the scan has come to the amplifier
           /\ gain = 127
           /\ reading = DefaultAmp
           /\ amp = DefaultAmp
           /\ asked = [v \in 0..MaxVerbs |-> [verb |-> "none", gain |-> 0]]
           /\ setting = Power
           /\ reply = 0
           /\ clean = FALSE
-----------------------------------------------------------------------------
(* The caller. *)

Ready == pc = "idle" /\ step = "none" /\ sent < MaxVerbs

(* refreshWidget reads the amplifier again if it is valid.                 *)
Refresh == /\ Ready
           /\ amp.valid
           /\ step' = "cap"
           /\ UNCHANGED <<vars, gain, reading, amp, codecVars, clean>>

Unmute == /\ Ready
          /\ step' = "setInput"
          /\ gain' = IF amp.valid THEN amp.step ELSE 127
          /\ UNCHANGED <<vars, reading, amp, codecVars, clean>>

BeginsTask == step \in {"cap", "setInput"}

Both(s) == [left |-> s, right |-> s]

(* The setting once the codec has executed verb v.                         *)
Executed(v) == IF asked[v].verb = "setOutput" THEN Both(asked[v].gain) ELSE setting

(* Verbs that the controller drops with this write may have been executed. *)
Send == /\ step # "none"
        /\ SendVerb
        /\ asked' = [asked EXCEPT ![sent'] = [verb |-> step, gain |-> gain]]
        /\ setting' \in {setting} \cup {Executed(v) : v \in inflight \ inflight'}
        /\ clean' = (IF BeginsTask THEN inflight = {} ELSE clean)
        /\ UNCHANGED <<callerVars, reply>>

(* Faulty: the capabilities are used with the bits above the 0 dB step.    *)
StepUnmasked(cap) == cap

Step(cap) == cap % 128

NoResponse == -1

ValueOr(r, default) == IF r = NoResponse THEN default ELSE r

(* The outcome r of the verb is used.                                      *)
CapResult(r) ==
  /\ step = "cap"
  /\ IF ValueOr(r, 0) = 0
     THEN step' = "none" /\ amp' = DefaultAmp /\ UNCHANGED reading
     ELSE /\ step' = "right"
          /\ reading' = [DefaultAmp EXCEPT !.valid = TRUE, !.step = Step(r)]
          /\ UNCHANGED amp

(* Faulty: the verb for the other side comes first.                        *)
SwappedRightResult(r) == /\ step = "right"
                         /\ step' = "left"
                         /\ reading' = [reading EXCEPT !.left = ValueOr(r, @)]
                         /\ UNCHANGED amp

RightResult(r) == /\ step = "right"
                  /\ step' = "left"
                  /\ reading' = [reading EXCEPT !.right = ValueOr(r, @)]
                  /\ UNCHANGED amp

LeftResult(r) == /\ step = "left"
                 /\ step' = "none"
                 /\ amp' = [reading EXCEPT !.left = ValueOr(r, @)]
                 /\ reading' = DefaultAmp

SetResult == /\ \/ step = "setInput" /\ step' = "setOutput"
                \/ step = "setOutput" /\ step' = "none"
             /\ UNCHANGED <<reading, amp>>

Result(r) == /\ CapResult(r) \/ RightResult(r) \/ LeftResult(r) \/ SetResult
             /\ UNCHANGED <<gain, codecVars>>

TakeResponse == ReadResponse /\ Result(reply) /\ UNCHANGED clean

TakeNone == GiveUp /\ Result(NoResponse) /\ clean' = FALSE

Waits == /\ LoadCommand \/ TriggerCommand \/ PollReady \/ PollAgain
         /\ UNCHANGED <<callerVars, codecVars, clean>>

AmpDriver == Waits \/ TakeResponse \/ TakeNone
-----------------------------------------------------------------------------
(* The codec. *)

Answer(verb) == CASE verb = "cap"   -> AmpCap
                  [] verb = "right" -> setting.right
                  [] verb = "left"  -> setting.left
                  [] OTHER          -> 0

CodecResponds == /\ Respond
                 /\ reply' = Answer(asked[irr'].verb)
                 /\ setting' = Executed(irr')
                 /\ UNCHANGED <<callerVars, asked, clean>>

(* What is lost is a verb, or the response to a verb that was executed,    *)
(* after all the ones before it.                                           *)
CodecLoses ==
  /\ Lose
  /\ setting' \in {setting} \cup
                  {Executed(v) : v \in (inflight \ inflight') \cap {Oldest(inflight)}}
  /\ UNCHANGED <<callerVars, asked, reply, clean>>

AmpFinished == Finished /\ UNCHANGED ampVars

AmpNext == \/ Refresh \/ Unmute \/ Send \/ AmpDriver
           \/ CodecResponds \/ CodecLoses \/ AmpFinished

(* Every step of the composition is one of ImmediateCommand. The driver's   *)
(* thread runs; the hardware promises nothing.                             *)
AmpSpec == AmpInit /\ [][AmpNext]_ampVars /\ WF_ampVars(AmpDriver)
-----------------------------------------------------------------------------
TaskEnds == step # "none" /\ step' = "none"

(* A task that begins with nothing in flight, and whose verbs are all       *)
(* answered, did what it is for, whatever was lost or late before it: the   *)
(* database shows the amplifier as it is, or both sides are at the gain.    *)
CleanTaskExact ==
  [][TaskEnds /\ clean' =>
       IF step = "setOutput" THEN setting = Both(gain)
       ELSE amp' = [valid |-> TRUE, step |-> AmpCap % 128,
                    left |-> setting.left, right |-> setting.right]]_ampVars

(* An unmute never mutes, even when the answer to another verb was late and *)
(* was taken for the capabilities its gain comes from.                      *)
NeverMutes == [][setting' # setting => setting'.left < 128 /\ setting'.right < 128]_ampVars
=============================================================================
