----------------------------- MODULE OutputPath -----------------------------
(***************************************************************************)
(* The codec's side of playing: what efi_init sends between the reset of   *)
(* the controller and its console, to open the way from the stream through *)
(* a converter (node 2), a mixer (node 12) and a pin (node 27), and the    *)
(* functions of HDACodec it calls for that. Each action is one exchange.   *)
(*                                                                         *)
(* A verb may get no response, and then stays in flight: it may never      *)
(* reach the codec, or be executed later, and then its answer is lost or   *)
(* is what the next exchange takes for its own, whose answer is late in    *)
(* its turn (ImmediateCommand says why).                                   *)
(*                                                                         *)
(* What the database holds of the three nodes is what WidgetDatabase shows *)
(* a scan without late answers may leave: the truth or the default.        *)
(***************************************************************************)
EXTENDS Integers, Sequences

CONSTANTS
  Steps,         \* Steps[n]: the 0 dB step of node n's output amplifier
  InputStep,     \* the 0 dB step of the input amplifiers
  Capabilities,  \* the capabilities of the converter's output amplifier
  Identities,    \* the words a codec may answer when asked who it is
  PinControls,   \* pin controls the firmware may leave
  Headphone,     \* the pin can drive a headphone
  MaxFlight,     \* bound on the verbs in flight
  MaxCalls       \* bound on the calls after efi_init's own

Nodes == {"converter", "mixer", "pin"}

(* Output amplifiers, and the first input amplifiers unmute names too.     *)
Amplifiers == Nodes \cup {"mixerIn", "pinIn"}

ASSUME StepsAssumption == Steps \in [Nodes -> 0..126] /\ InputStep \in 0..126
ASSUME AnswersAssumption == /\ Capabilities \in Nat /\ Identities \subseteq Nat
                          /\ Capabilities % 128 = Steps["converter"]
ASSUME PinAssumption == PinControls \subseteq 0..255 /\ Headphone \in BOOLEAN
ASSUME BoundsAssumption == MaxFlight \in Nat /\ MaxCalls \in Nat

StreamNumber == 1     \* bits 20-23 of what outputStreamTurnOn writes, 0x00140002
Format       == 17    \* streamFormat: 48 kHz, 16 bits, two channels

Muted == 128
NoGain == 127         \* the gain unmute sends if the database has no amplifier
NoResponse == -1

(* What the database may hold: whether it has the converter and the pin as *)
(* what they are, and the gain unmute takes from it (WidgetDatabase's      *)
(* GainFor), which is the output amplifier's own if that one is valid.     *)
Collected(d) ==
  /\ d.headphone => d.pin /\ Headphone
  /\ ~d.pin => "pin" \notin d.valid /\ d.gain["pin"] = NoGain
  /\ \A n \in {"mixer", "pin"} : d.gain[n] \in IF n \in d.valid THEN {Steps[n]}
                                               ELSE {0, InputStep, NoGain}

VARIABLES
  todo,         \* the exchanges still to make
  calls,        \* calls made after efi_init's own
  db,           \* what the database holds of the three nodes
  value,        \* ctrl or ampCap: the response the call under way has read
  outputOK,     \* what setOutputNode returned: "none", "true" or "false"
  flight,       \* the verbs sent that are not answered, the oldest first
  answered,     \* history: every verb of efi_init got its response
  outputAlone,  \* history: nothing was in flight when setOutputNode began
  pinAlone,     \* history: the same of enablePinWidget or disablePinWidget
  stream,       \* the converter's stream
  format,       \* the converter's format
  control,      \* the pin's control byte
  amps          \* the amplifiers: the gain, or Muted

callVars  == <<calls, db>>
history   == <<answered, outputAlone, pinAlone>>
codecVars == <<stream, format, control, amps>>
vars      == <<todo, callVars, value, outputOK, flight, history, codecVars>>

setOutputNode    == <<"getCap", "setStream", "setVolume">>
enablePinWidget  == <<"getPin", "enablePin">>
disablePinWidget == <<"getPin", "disablePin">>

boot == <<"getID">> \o setOutputNode \o enablePinWidget
          \o <<"getFormat", "setFormat">>
          \o <<"unmuteMixerIn", "unmuteMixer", "unmutePinIn", "unmutePin">>

(* The reset of the controller leaves nothing in flight.                   *)
Init == /\ todo = boot
        /\ calls = 0
        /\ \E gain \in [{"mixer", "pin"} -> {0, InputStep, NoGain} \cup
                                            {Steps[n] : n \in Nodes}],
              valid \in SUBSET {"mixer", "pin"}, c, p, h \in BOOLEAN :
             /\ db = [converter |-> c, pin |-> p, headphone |-> h,
                      valid |-> valid, gain |-> gain]
             /\ Collected(db)
        /\ value = 0
        /\ outputOK = "none"
        /\ flight = <<>>
        /\ answered = TRUE
        /\ outputAlone = FALSE
        /\ pinAlone = FALSE
        /\ stream \in {0, 5}
        /\ format = 0
        /\ control \in PinControls
        /\ amps = [a \in Amplifiers |-> Muted]
-----------------------------------------------------------------------------
PinWrites == {"enablePin", "disablePin"}

(* What sendVerb sends, and whether it is a pin write of a call that began *)
(* with nothing in flight.                                                 *)
Verb(name, operand) == [name |-> name, operand |-> operand,
                        alone |-> pinAlone /\ name \in PinWrites]

(* The amplifier a verb sets.                                              *)
Target == [setVolume |-> "converter", unmuteMixerIn |-> "mixerIn",
           unmuteMixer |-> "mixer", unmutePinIn |-> "pinIn", unmutePin |-> "pin"]

(* The codec executes verb v,                                              *)
Executed(v) ==
  /\ stream'  = IF v.name = "setStream" THEN v.operand ELSE stream
  /\ format'  = IF v.name = "setFormat" THEN v.operand ELSE format
  /\ control' = IF v.name \in PinWrites THEN v.operand ELSE control
  /\ amps'    = IF v.name \in DOMAIN Target
                THEN [amps EXCEPT ![Target[v.name]] = v.operand] ELSE amps

(* and answers it.                                                         *)
Answers(v) == CASE v.name = "getID"     -> Identities
                [] v.name = "getCap"    -> {Capabilities}
                [] v.name = "getPin"    -> {control}
                [] v.name = "getFormat" -> {format}
                [] OTHER -> {0}

(* A verb leaves the flight unanswered between two exchanges, executed or  *)
(* not; sendVerb clears an answer that came too early for it.              *)
Settle == /\ flight # <<>>
          /\ Executed(Head(flight)) \/ UNCHANGED codecVars
          /\ flight' = Tail(flight)
          /\ UNCHANGED <<todo, callVars, value, outputOK, history>>
-----------------------------------------------------------------------------
Does(verb) == todo # <<>> /\ Head(todo) = verb

Skip(n) == todo' = SubSeq(todo, n + 1, Len(todo))

Booting == calls = 0

Responses == {NoResponse, 0, Capabilities, control, format} \cup Identities

(* sendVerb followed by readVerbResponse, which returns r: the answer to v, *)
(* the late answer to the oldest verb in flight, or none.                   *)
Exchange(v, r) ==
  /\ \/ flight = <<>> /\ Executed(v) /\ r \in Answers(v) /\ UNCHANGED flight
     \/ /\ flight # <<>> /\ Executed(Head(flight)) /\ r \in Answers(Head(flight))
        /\ flight' = Append(Tail(flight), v)
     \/ /\ r = NoResponse /\ Len(flight) < MaxFlight
        /\ flight' = Append(flight, v) /\ UNCHANGED codecVars
  /\ answered' = (answered /\ (Booting => r # NoResponse))

(* The exchange of the verb that is next.                                  *)
Sends(verb, operand, r) ==
  Does(verb) /\ Exchange(Verb(verb, operand), r) /\ UNCHANGED callVars

(* A verb whose response is printed or dropped.                            *)
Just(verb, operand) ==
  /\ \E r \in Responses : Sends(verb, operand, r)
  /\ Skip(1)
  /\ UNCHANGED <<value, outputOK, outputAlone, pinAlone>>

GetID == Just("getID", 0)

(* setOutputNode returns false at the first verb without a response.       *)
GetCap ==
  /\ \E r \in Responses :
       /\ Sends("getCap", 0, r)
       /\ \/ r # NoResponse /\ value' = r /\ Skip(1) /\ UNCHANGED outputOK
          \/ r = NoResponse /\ UNCHANGED value /\ Skip(3) /\ outputOK' = "false"
  /\ outputAlone' = (flight = <<>>)
  /\ UNCHANGED pinAlone

(* Faulty: setOutputNode goes on without a response.                       *)
SetStreamUnchecked == Just("setStream", StreamNumber)

SetStream ==
  /\ \E r \in Responses :
       /\ Sends("setStream", StreamNumber, r)
       /\ \/ r # NoResponse /\ Skip(1) /\ UNCHANGED outputOK
          \/ r = NoResponse /\ Skip(2) /\ outputOK' = "false"
  /\ UNCHANGED <<value, outputAlone, pinAlone>>

(* maxVolume, "actually 0 dB setting".                                     *)
Step(capabilities) == capabilities % 128

(* Verb 0x300Fvv: the amplifiers of the converter, at the step just read.  *)
SetVolume ==
  /\ \E r \in Responses :
       /\ Sends("setVolume", Step(value), r)
       /\ outputOK' = IF r # NoResponse THEN "true" ELSE "false"
  /\ Skip(1)
  /\ UNCHANGED <<value, outputAlone, pinAlone>>

(* enablePinWidget and disablePinWidget do nothing to a node that the       *)
(* database does not have as a pin.                                         *)
NotAPin == /\ ~db.pin /\ Does("getPin") /\ Skip(2)
           /\ UNCHANGED <<callVars, value, outputOK, flight, history, codecVars>>

(* Faulty: the control is written whether it was read or not.              *)
GetPinAnyway ==
  \/ /\ db.pin
     /\ \E r \in Responses :
          /\ Sends("getPin", 0, r)
          /\ value' = IF r # NoResponse THEN r ELSE 0
     /\ Skip(1)
     /\ pinAlone' = (flight = <<>>)
     /\ UNCHANGED <<outputOK, outputAlone>>
  \/ NotAPin

(* Nothing is written if the control cannot be read.                       *)
GetPin ==
  \/ /\ db.pin
     /\ \E r \in Responses :
          /\ Sends("getPin", 0, r)
          /\ \/ r # NoResponse /\ value' = r /\ Skip(1)
             \/ r = NoResponse /\ UNCHANGED value /\ Skip(2)
     /\ pinAlone' = (flight = <<>>)
     /\ UNCHANGED <<outputOK, outputAlone>>
  \/ NotAPin

VRef(byte) == byte % 8

(* Output enable, and headphone enable if the database says so.            *)
Enabled(byte) == VRef(byte) + 64 + (IF db.headphone THEN 128 ELSE 0)

EnablePin == Just("enablePin", Enabled(value))

DisablePin == Just("disablePin", VRef(value))

(* getIOWidgetFormat, for printing only, and setIOWidgetFormat do nothing   *)
(* to a node that the database does not have as a converter.                *)
NotAConverter(verb) ==
  /\ ~db.converter /\ Does(verb) /\ Skip(1)
  /\ UNCHANGED <<callVars, value, outputOK, flight, history, codecVars>>

GetFormat == \/ db.converter /\ Just("getFormat", 0)
             \/ NotAConverter("getFormat")

SetFormat == \/ db.converter /\ Just("setFormat", Format)
             \/ NotAConverter("setFormat")

(* Faulty: a gain that is not known is sent as all ones.                   *)
GainOrMuted(n) == IF n \in db.valid THEN db.gain[n] ELSE 255

Gain(n) == db.gain[n]

(* The two verbs of the unmute command, for the mixer and for the pin.     *)
UnmuteMixer == \/ Just("unmuteMixerIn", Gain("mixer"))
               \/ Just("unmuteMixer", Gain("mixer"))

UnmutePin == \/ Just("unmutePinIn", Gain("pin"))
             \/ Just("unmutePin", Gain("pin"))

(* The same functions called again, after efi_init's sequence: none of      *)
(* the program's commands does, but the node command reads the format.      *)
Call == /\ todo = <<>>
        /\ calls < MaxCalls
        /\ calls' = calls + 1
        /\ \/ todo' = setOutputNode /\ outputOK' = "none"
           \/ /\ todo' \in {enablePinWidget, disablePinWidget, <<"getFormat">>}
              /\ UNCHANGED outputOK
        /\ UNCHANGED <<db, value, flight, history, codecVars>>

Finished == todo = <<>> /\ calls = MaxCalls /\ UNCHANGED vars

Next == \/ GetID \/ GetCap \/ SetStream \/ SetVolume
        \/ GetPin \/ EnablePin \/ DisablePin
        \/ GetFormat \/ SetFormat \/ UnmuteMixer \/ UnmutePin
        \/ Settle \/ Call \/ Finished

Spec == Init /\ [][Next]_vars
-----------------------------------------------------------------------------
InputEnabled(byte)  == (byte \div 32) % 2 = 1
OutputEnabled(byte) == (byte \div 64) % 2 = 1

(* When efi_init comes to its console and every verb was answered, the way *)
(* is open as far as the database knows the nodes: the converter takes the *)
(* stream the controller sends, in the stream's format, nothing on the way *)
(* is muted, and the pin drives its output and not its input.              *)
PathOpen ==
  Booting /\ todo = <<>> /\ answered =>
    /\ stream = StreamNumber
    /\ db.converter => format = Format
    /\ \A a \in Amplifiers : amps[a] < Muted
    /\ \A n \in {"converter"} \cup db.valid : amps[n] = Steps[n]
    /\ db.pin => OutputEnabled(control) /\ ~InputEnabled(control)

Playing == stream = StreamNumber /\ amps["converter"] = Steps["converter"]

(* If setOutputNode began with nothing in flight, it returns true only if  *)
(* the converter is on the stream and unmuted at 0 dB, and nothing that is *)
(* done, lost or late after that takes it back.                            *)
OutputOKTrue == outputOK = "true" /\ outputAlone => Playing

(* The pin write the codec executes in this step belongs to a call that    *)
(* began with nothing in flight.                                           *)
WritesAlone == IF flight = <<>> THEN pinAlone ELSE Head(flight).alone

(* Enabling and disabling the pin never leaves its input enabled, whatever *)
(* is lost or late. A call that began with nothing in flight does not      *)
(* change the voltage reference of the pin either, even if its write is    *)
(* executed long after the call gave up on it.                             *)
PinKeepsVRef ==
  [][control' # control =>
       /\ ~InputEnabled(control')
       /\ WritesAlone => VRef(control') = VRef(control)]_vars
=============================================================================
