-------------------------- MODULE OutputPathProofs --------------------------
(***************************************************************************)
(* Proofs about OutputPath, for every 0 dB step of the amplifiers, every   *)
(* pin control the firmware may leave, every pin and every number of later *)
(* calls and of verbs in flight: when efi_init comes to its console with   *)
(* every verb answered, the way from the stream to the pin is open         *)
(* (PathOpen); if setOutputNode began with nothing in flight, its answer   *)
(* is true and stays so (OutputOKTrue); writing the pin never turns its    *)
(* input on, and a call that began with nothing in flight keeps its        *)
(* voltage reference (PinKeepsVRef).                                       *)
(*                                                                         *)
(* PathOpen speaks of the end of efi_init alone, and says nothing of the   *)
(* twelve verbs before it. The invariant ties what the codec holds to the  *)
(* place the sequence has come to: todo is the part from i to j of a       *)
(* sequence of verbs, and if every verb was answered so far, the way is    *)
(* open as far as the verbs before i open it. What a verb uses of the      *)
(* verbs before it is said of every sequence (Before).                     *)
(*                                                                         *)
(* A verb without a response may be executed any time later. The flight is *)
(* therefore part of the invariant: no verb in it gains more than the gain *)
(* bits, drives the pin's input, or, once setOutputNode's answer is true,  *)
(* writes the converter's stream or volume (OutputSettled); and only its   *)
(* oldest verb may be the pin write of a call that began with nothing in   *)
(* flight, with the voltage reference the pin has now (Link).              *)
(*                                                                         *)
(* The last part is about StreamFormat, the word that is sent to the       *)
(* converter on this path.                                                 *)
(***************************************************************************)
EXTENDS OutputPath, StreamFormat, SequenceTheorems, TLAPS
-----------------------------------------------------------------------------

(* What the rest of a sequence may be: of efi_init's own if no call was    *)
(* made after it, and else of the function called.                         *)
Shape(s, i, j) ==
  \/ calls = 0 /\ s = boot /\ i \in 1..13 /\ j = 12
  \/ calls > 0 /\ s = boot /\ i \in 2..5 /\ j = 4
  \/ calls > 0 /\ s = boot /\ i \in 5..7 /\ j = 6
  \/ calls > 0 /\ s = boot /\ i \in 7..8 /\ j = 7
  \/ calls > 0 /\ s = disablePinWidget /\ i \in 1..3 /\ j = 2

Place(s, i, j) == Shape(s, i, j) /\ todo = SubSeq(s, i, j)

OutputWrites == {"setStream", "setVolume"}

(* What holds before a verb, whatever is lost or late: setOutputNode has   *)
(* not answered yet, and a call that began with nothing in flight has      *)
(* nothing in flight and has read what the verb needs.                     *)
Before(verb) ==
  /\ verb \in {"getID", "getCap"} \cup OutputWrites => outputOK = "none"
  /\ verb \in OutputWrites /\ outputAlone =>
       flight = <<>> /\ Step(value) = Steps["converter"]
  /\ verb = "setVolume" /\ outputAlone => stream = StreamNumber
  /\ verb \in PinWrites /\ pinAlone => flight = <<>> /\ value = control

PinOpen == OutputEnabled(control) /\ ~InputEnabled(control)

(* How far the way is open before verb i of efi_init, every verb before it *)
(* answered.                                                               *)
OpenTo(i) ==
  /\ i >= 3 => outputAlone
  /\ i >= 4 => stream = StreamNumber
  /\ i >= 5 => amps["converter"] = Steps["converter"]
  /\ i >= 7 /\ db.pin => PinOpen
  /\ i >= 9 /\ db.converter => format = Format
  /\ i >= 10 => amps["mixerIn"] < Muted
  /\ i >= 11 => amps["mixer"] = db.gain["mixer"]
  /\ i >= 12 => amps["pinIn"] < Muted
  /\ i >= 13 => amps["pin"] = db.gain["pin"]

Databases == [converter : BOOLEAN, pin : BOOLEAN, headphone : BOOLEAN,
              valid : SUBSET {"mixer", "pin"}, gain : [{"mixer", "pin"} -> 0..127]]

Byte == 0..255

Codec == /\ control \in Byte
         /\ format \in Byte
         /\ amps \in [Amplifiers -> 0..Muted]

Ranges ==
  /\ calls \in Nat /\ value \in Nat
  /\ answered \in BOOLEAN /\ outputAlone \in BOOLEAN /\ pinAlone \in BOOLEAN
  /\ db \in Databases /\ Collected(db)

Verbs == {"getID", "getCap", "setStream", "setVolume", "getPin", "enablePin",
          "disablePin", "getFormat", "setFormat",
          "unmuteMixerIn", "unmuteMixer", "unmutePinIn", "unmutePin"}

Sent == [name : Verbs, operand : Byte, alone : BOOLEAN]

(* A verb that can do no harm whenever the codec executes it.              *)
Harmless(v) == /\ v.name \in PinWrites => ~InputEnabled(v.operand)
               /\ v.name \in DOMAIN Target => v.operand < Muted

SafeVerbs == {v \in Sent : Harmless(v)}

(* Of the verbs in flight only the oldest may be the pin write of a call   *)
(* that began alone, and it keeps the voltage reference of the pin as it   *)
(* is now. While every verb of efi_init is answered nothing is in flight.  *)
Link ==
  /\ flight \in Seq(SafeVerbs)
  /\ \A k \in 2..Len(flight) : ~flight[k].alone
  /\ flight # <<>> /\ flight[1].alone => VRef(flight[1].operand) = VRef(control)
  /\ calls = 0 /\ answered => flight = <<>>

(* The converter is playing, and nothing in flight can change that.        *)
Settled == /\ Playing
           /\ \A k \in 1..Len(flight) : flight[k].name \notin OutputWrites

OutputSettled == outputOK = "true" /\ outputAlone => Settled

(* The sequence is at verb i of s, up to j.                                *)
At(s, i, j) ==
  /\ Place(s, i, j)
  /\ i <= j => Before(s[i])
  /\ calls = 0 /\ answered => OpenTo(i)

(* What holds at every place.                                              *)
Good == Ranges /\ Codec /\ Link /\ OutputSettled

IInv == Good /\ \E s \in {boot, disablePinWidget}, i \in 1..13, j \in 2..12 : At(s, i, j)
-----------------------------------------------------------------------------
(* The verbs of efi_init, one by one.                                      *)
LEMMA BootVerbs ==
  /\ boot \in Seq(Verbs) /\ Len(boot) = 12
  /\ boot[1] = "getID" /\ boot[2] = "getCap" /\ boot[3] = "setStream"
  /\ boot[4] = "setVolume" /\ boot[5] = "getPin" /\ boot[6] = "enablePin"
  /\ boot[7] = "getFormat" /\ boot[8] = "setFormat" /\ boot[9] = "unmuteMixerIn"
  /\ boot[10] = "unmuteMixer" /\ boot[11] = "unmutePinIn" /\ boot[12] = "unmutePin"
  BY DEF boot, setOutputNode, enablePinWidget, Verbs

(* The verbs of disablePinWidget.                                          *)
LEMMA DisableVerbs ==
  /\ disablePinWidget \in Seq(Verbs) /\ Len(disablePinWidget) = 2
  /\ disablePinWidget[1] = "getPin" /\ disablePinWidget[2] = "disablePin"
  BY DEF disablePinWidget, Verbs

(* The two sequences differ in length.                                     *)
LEMMA Apart == boot # disablePinWidget
<1>1. Len(boot) # Len(disablePinWidget)
  BY BootVerbs, DisableVerbs
<1> QED
  BY <1>1

(* The part of a sequence from i to j begins with element i.               *)
LEMMA PartHead ==
  ASSUME NEW S, NEW s \in Seq(S), NEW i \in 1..Len(s), NEW j \in i..Len(s)
  PROVE  /\ Head(SubSeq(s, i, j)) = s[i]
         /\ Len(SubSeq(s, i, j)) = j - i + 1
         /\ SubSeq(s, i, j) # <<>>
<1>1. Head(SubSeq(s, i, j)) = s[i]
  BY HeadTailOfSubSeq
<1>2. \A m \in i..j : s[m] \in S
  BY ElementOfSeq
<1>3. Len(SubSeq(s, i, j)) = j - i + 1
  BY <1>2, SubSeqProperties
<1> QED
  BY <1>1, <1>3

(* Skipping the first k of a part leaves the part from i + k.              *)
LEMMA PartSkip ==
  ASSUME NEW S, NEW s \in Seq(S), NEW i \in 1..Len(s), NEW j \in i..Len(s),
         NEW k \in 1..(j - i + 1)
  PROVE  SubSeq(SubSeq(s, i, j), k + 1, Len(SubSeq(s, i, j))) = SubSeq(s, i + k, j)
<1>1. Len(SubSeq(s, i, j)) = j - i + 1
  BY PartHead
<1>2. CASE k = j - i + 1
  <2>1. SubSeq(SubSeq(s, i, j), k + 1, j - i + 1) = <<>>
    BY <1>2, SubSeqEmpty
  <2>2. SubSeq(s, i + k, j) = <<>>
    BY <1>2, SubSeqEmpty
  <2> QED
    BY <1>1, <2>1, <2>2
<1>3. CASE k < j - i + 1
  <2>1. /\ j \in 1..Len(s)
        /\ k + 1 \in 1..j - i + 1 /\ j - i + 1 \in 1..j - i + 1
        /\ i + (k + 1) - 1 = i + k /\ i + (j - i + 1) - 1 = j
    BY <1>3
  <2>2. SubSeq(SubSeq(s, i, j), k + 1, j - i + 1)
          = SubSeq(s, i + (k + 1) - 1, i + (j - i + 1) - 1)
    BY <2>1, SubSeqOfSubSeq
  <2> QED
    BY <1>1, <2>1, <2>2
<1> QED
  BY <1>2, <1>3

(* What the two bytes written to the pin keep and what they set.           *)
LEMMA VRefBits ==
  ASSUME NEW b \in Nat
  PROVE  /\ VRef(VRef(b)) = VRef(b) /\ ~InputEnabled(VRef(b)) /\ VRef(b) \in Byte
         /\ VRef(Enabled(b)) = VRef(b) /\ Enabled(b) \in Byte
         /\ OutputEnabled(Enabled(b)) /\ ~InputEnabled(Enabled(b))
<1>1. PICK r \in 0..7 : r = VRef(b)
  BY DEF VRef
<1>2. PICK h \in {0, 128} : h = IF db.headphone THEN 128 ELSE 0
  OBVIOUS
<1>3. r % 8 = r /\ (r \div 32) % 2 = 0
  OBVIOUS
<1>4. /\ (r + 64 + h) % 8 = r
      /\ ((r + 64 + h) \div 64) % 2 = 1
      /\ ((r + 64 + h) \div 32) % 2 = 0
  <2>1. CASE h = 0
    BY <2>1
  <2>2. CASE h = 128
    BY <2>2
  <2> QED
    BY <2>1, <2>2
<1>5. Enabled(b) = r + 64 + h
  BY <1>1, <1>2 DEF Enabled
<1>6. /\ VRef(VRef(b)) = VRef(b) /\ ~InputEnabled(VRef(b)) /\ VRef(b) \in Byte
  BY <1>1, <1>3 DEF VRef, InputEnabled, Byte
<1>7. /\ VRef(Enabled(b)) = VRef(b) /\ Enabled(b) \in Byte
      /\ OutputEnabled(Enabled(b)) /\ ~InputEnabled(Enabled(b))
  <2>1. VRef(r + 64 + h) = r
    BY <1>4 DEF VRef
  <2>2. OutputEnabled(r + 64 + h) /\ ~InputEnabled(r + 64 + h)
    BY <1>4 DEF OutputEnabled, InputEnabled
  <2>3. r + 64 + h \in Byte
    BY DEF Byte
  <2> QED
    BY <1>1, <1>5, <2>1, <2>2, <2>3
<1> QED
  BY <1>6, <1>7

(* The same of the byte disablePinWidget writes alone.                     *)
LEMMA DisabledByte ==
  ASSUME NEW b \in Nat
  PROVE  VRef(VRef(b)) = VRef(b) /\ ~InputEnabled(VRef(b)) /\ VRef(b) \in Byte
  BY VRefBits, Zenon

(* The same of the byte enablePinWidget writes alone.                      *)
LEMMA EnabledByte ==
  ASSUME NEW b \in Nat
  PROVE  /\ VRef(Enabled(b)) = VRef(b) /\ Enabled(b) \in Byte
         /\ OutputEnabled(Enabled(b)) /\ ~InputEnabled(Enabled(b))
  BY VRefBits, Zenon

(* The amplifiers the verbs set.                                           *)
LEMMA Targets ==
  /\ DOMAIN Target = {"setVolume", "unmuteMixerIn", "unmuteMixer", "unmutePinIn", "unmutePin"}
  /\ Target["setVolume"] = "converter"
  /\ Target["unmuteMixerIn"] = "mixerIn" /\ Target["unmuteMixer"] = "mixer"
  /\ Target["unmutePinIn"] = "pinIn" /\ Target["unmutePin"] = "pin"
  BY DEF Target

(* A seven-bit gain is not Muted.                                          *)
LEMMA Gains ==
  /\ \A g \in 0..127 : g \in Byte /\ g \in 0..Muted /\ g < Muted
  /\ \A n \in Nodes : Steps[n] \in 0..Muted /\ Steps[n] < Muted
<1>1. \A g \in 0..127 : g \in Byte /\ g \in 0..Muted /\ g < Muted
  BY DEF Muted, Byte
<1>2. \A n \in Nodes : Steps[n] \in 0..127
  BY StepsAssumption
<1> QED
  BY <1>1, <1>2

(* Whenever the codec executes a verb that was sent, its registers stay    *)
(* what they are, the pin's input is not enabled, and only setOutputNode's *)
(* own verbs stop the converter from playing.                              *)
LEMMA Executions ==
  ASSUME Codec, NEW v \in SafeVerbs, Executed(v)
  PROVE  /\ Codec'
         /\ v.name \notin OutputWrites /\ Playing => Playing'
         /\ control' # control => control' = v.operand /\ ~InputEnabled(control')
<1>1. v \in Sent /\ Harmless(v) /\ v.operand \in Byte
  BY DEF SafeVerbs, Sent
<1>2. control' \in Byte /\ format' \in Byte
  BY <1>1 DEF Executed, Codec
<1>3. amps' \in [Amplifiers -> 0..Muted]
  <2>1. v.name \in DOMAIN Target => v.operand \in 0..Muted
    BY <1>1 DEF Harmless, Byte, Muted
  <2>2. CASE v.name \in DOMAIN Target
    <3>1. PICK g \in 0..Muted : g = v.operand
      BY <2>1, <2>2
    <3>2. amps' = [amps EXCEPT ![Target[v.name]] = g]
      BY <2>2, <3>1 DEF Executed
    <3> QED
      BY <3>1, <3>2 DEF Codec
  <2>3. CASE v.name \notin DOMAIN Target
    BY <2>3 DEF Executed, Codec
  <2> QED
    BY <2>2, <2>3
<1>4. ASSUME v.name \notin OutputWrites, Playing
      PROVE  Playing'
  <2>1. stream' = stream
    BY <1>4 DEF Executed, OutputWrites
  <2>2. amps'["converter"] = amps["converter"]
    <3>1. CASE v.name \in DOMAIN Target
      <4>1. Target[v.name] # "converter"
        BY <1>4, <3>1, Targets DEF OutputWrites
      <4>2. "converter" \in Amplifiers
        BY DEF Amplifiers, Nodes
      <4> QED
        BY <3>1, <4>1, <4>2 DEF Executed, Codec
    <3>2. CASE v.name \notin DOMAIN Target
      BY <3>2 DEF Executed
    <3> QED
      BY <3>1, <3>2
  <2> QED
    BY <1>4, <2>1, <2>2 DEF Playing
<1>5. ASSUME control' # control
      PROVE  control' = v.operand /\ ~InputEnabled(control')
  BY <1>1, <1>5 DEF Executed, Harmless
<1> QED
  BY <1>2, <1>3, <1>4, <1>5 DEF Codec

(* The oldest verb of the flight, and the flight without it.               *)
LEMMA Oldest ==
  ASSUME flight \in Seq(SafeVerbs), flight # <<>>
  PROVE  /\ Head(flight) = flight[1] /\ flight[1] \in SafeVerbs
         /\ Tail(flight) \in Seq(SafeVerbs)
         /\ Len(Tail(flight)) = Len(flight) - 1
         /\ \A k \in 1..Len(Tail(flight)) : Tail(flight)[k] = flight[k + 1]
<1>1. Len(flight) \in Nat /\ Len(flight) >= 1
  BY EmptySeq, LenProperties
<1>2. flight[1] \in SafeVerbs
  BY <1>1, ElementOfSeq
<1> QED
  BY <1>1, <1>2, HeadTailProperties

(* The flight with a verb more.                                            *)
LEMMA Younger ==
  ASSUME NEW s \in Seq(SafeVerbs), NEW v \in SafeVerbs
  PROVE  /\ Append(s, v) \in Seq(SafeVerbs)
         /\ Len(Append(s, v)) = Len(s) + 1
         /\ \A k \in 1..Len(s) : Append(s, v)[k] = s[k]
         /\ Append(s, v)[Len(s) + 1] = v
  BY AppendProperties

(* A verb that leaves the flight between two exchanges leaves it safe.     *)
LEMMA SettleKeepsLink ==
  ASSUME Ranges, Codec, Link, Settle
  PROVE  Codec' /\ Link' /\ (Settled => Settled') /\ ~(calls = 0 /\ answered)
<1>1. /\ flight[1] \in SafeVerbs
      /\ Executed(flight[1]) \/ UNCHANGED codecVars
      /\ flight' \in Seq(SafeVerbs)
      /\ Len(flight') = Len(flight) - 1 /\ Len(flight) \in Nat
      /\ \A k \in 1..Len(flight') : flight'[k] = flight[k + 1]
  BY Oldest, LenProperties DEF Settle, Link
<1>2. Codec' /\ (flight[1].name \notin OutputWrites /\ Playing => Playing')
  <2>1. CASE Executed(flight[1])
    BY <1>1, <2>1, Executions
  <2>2. CASE UNCHANGED codecVars
    BY <2>2 DEF codecVars, Codec, Playing
  <2> QED
    BY <1>1, <2>1, <2>2
<1>3. ~(calls = 0 /\ answered)
  BY DEF Settle, Link
<1>4. \A k \in 1..Len(flight') : ~flight'[k].alone
  <2>1. \A k \in 1..Len(flight') : k + 1 \in 2..Len(flight)
    BY <1>1
  <2> QED
    BY <1>1, <2>1 DEF Link
<1>5. Link'
  <2>1. ~(calls' = 0 /\ answered')
    BY <1>3 DEF Settle, callVars, history
  <2>2. flight' # <<>> => 1 \in 1..Len(flight')
    BY <1>1, EmptySeq, LenProperties
  <2>3. \A k \in 2..Len(flight') : k \in 1..Len(flight')
    BY <1>1
  <2> QED
    BY <1>1, <1>4, <2>1, <2>2, <2>3 DEF Link
<1>6. ASSUME Settled
      PROVE  Settled'
  <2>1. 1 \in 1..Len(flight)
    BY EmptySeq, LenProperties DEF Settle, Link
  <2>2. Playing'
    BY <1>2, <1>6, <2>1 DEF Settled
  <2>3. \A k \in 1..Len(flight') : k + 1 \in 1..Len(flight)
    BY <1>1
  <2> QED
    BY <1>1, <1>6, <2>2, <2>3 DEF Settled
<1> QED
  BY <1>2, <1>3, <1>5, <1>6

(* An exchange leaves it safe too, if what it sends is safe. It returns a  *)
(* number or none; if nothing was in flight and it returns one, that is    *)
(* the answer to its own verb, the codec having executed that.             *)
LEMMA ExchangeKeepsLink ==
  ASSUME Ranges, Codec, Link, NEW v \in SafeVerbs, NEW r \in Responses,
         v.alone => flight = <<>> /\ VRef(v.operand) = VRef(control),
         Exchange(v, r), UNCHANGED callVars
  PROVE  /\ Codec' /\ Link' /\ answered' \in BOOLEAN
         /\ Settled /\ v.name \notin OutputWrites => Settled'
         /\ r # NoResponse => r \in Nat
         /\ flight = <<>> /\ r # NoResponse =>
              Executed(v) /\ r \in Answers(v) /\ flight' = <<>>
         /\ calls' = 0 /\ answered' =>
              calls = 0 /\ answered /\ flight = <<>> /\ r # NoResponse
<1>0. flight \in Seq(SafeVerbs) /\ Len(flight) \in Nat
  BY LenProperties DEF Link
<1>1. r # NoResponse => r \in Nat
  <2>1. control \in Nat /\ format \in Nat
    BY DEF Codec, Byte
  <2>2. 0 \in Nat /\ Capabilities \in Nat /\ Identities \subseteq Nat
    BY AnswersAssumption
  <2> QED
    BY <2>1, <2>2, Zenon DEF Responses
<1>2. answered' \in BOOLEAN
  BY DEF Exchange, Ranges
<1>3. ASSUME calls' = 0, answered'
      PROVE  calls = 0 /\ answered /\ flight = <<>> /\ r # NoResponse
  BY <1>3 DEF Exchange, Booting, Link, callVars
<1>4. CASE flight = <<>> /\ Executed(v) /\ r \in Answers(v) /\ UNCHANGED flight
  <2>1. flight' = <<>> /\ Len(flight') = 0 /\ flight' \in Seq(SafeVerbs)
    BY <1>0, <1>4, EmptySeq
  <2>2. Codec' /\ (v.name \notin OutputWrites /\ Playing => Playing')
    BY <1>4, Executions
  <2>3. Link'
    BY <2>1 DEF Link
  <2>4. Settled /\ v.name \notin OutputWrites => Settled'
    BY <2>1, <2>2 DEF Settled
  <2> QED
    BY <1>1, <1>2, <1>3, <1>4, <2>1, <2>2, <2>3, <2>4
<1>5. CASE /\ flight # <<>> /\ Executed(Head(flight)) /\ r \in Answers(Head(flight))
           /\ flight' = Append(Tail(flight), v)
  <2>1. /\ flight[1] \in SafeVerbs /\ Executed(flight[1])
        /\ Tail(flight) \in Seq(SafeVerbs) /\ Len(Tail(flight)) = Len(flight) - 1
        /\ \A k \in 1..Len(Tail(flight)) : Tail(flight)[k] = flight[k + 1]
    BY <1>0, <1>5, Oldest
  <2>2. /\ flight' \in Seq(SafeVerbs) /\ Len(flight') = Len(flight)
        /\ \A k \in 1..Len(flight) - 1 : flight'[k] = flight[k + 1]
        /\ flight'[Len(flight)] = v
    BY <1>0, <1>5, <2>1, Younger
  <2>3. Codec' /\ (flight[1].name \notin OutputWrites /\ Playing => Playing')
    BY <2>1, Executions
  <2>4. ~v.alone
    BY <1>5
  <2>5. \A k \in 1..Len(flight) : ~flight'[k].alone
    <3>1. \A k \in 1..Len(flight) - 1 : k + 1 \in 2..Len(flight)
      BY <1>0
    <3> QED
      BY <1>0, <2>2, <2>4, <3>1 DEF Link
  <2>6. ~(calls' = 0 /\ answered')
    BY <1>3, <1>5
  <2>7. 1 \in 1..Len(flight)
    BY <1>0, <1>5, EmptySeq
  <2>8. Link'
    <3>1. \A k \in 2..Len(flight') : k \in 1..Len(flight)
      BY <1>0, <2>2
    <3> QED
      BY <2>2, <2>5, <2>6, <2>7, <3>1 DEF Link
  <2>9. ASSUME Settled, v.name \notin OutputWrites
        PROVE  Settled'
    <3>1. Playing'
      BY <2>3, <2>7, <2>9 DEF Settled
    <3>2. \A k \in 1..Len(flight) : flight'[k].name \notin OutputWrites
      <4>1. \A k \in 1..Len(flight) - 1 : k + 1 \in 1..Len(flight)
        BY <1>0
      <4> QED
        BY <1>0, <2>2, <2>9, <4>1 DEF Settled
    <3> QED
      BY <2>2, <3>1, <3>2 DEF Settled
  <2> QED
    BY <1>1, <1>2, <1>3, <1>5, <2>3, <2>8, <2>9
<1>6. CASE /\ r = NoResponse /\ Len(flight) < MaxFlight
           /\ flight' = Append(flight, v) /\ UNCHANGED codecVars
  <2>1. /\ flight' \in Seq(SafeVerbs) /\ Len(flight') = Len(flight) + 1
        /\ \A k \in 1..Len(flight) : flight'[k] = flight[k]
        /\ flight'[Len(flight) + 1] = v
    BY <1>0, <1>6, Younger
  <2>2. Codec' /\ (Playing => Playing') /\ control' = control
    BY <1>6 DEF codecVars, Codec, Playing
  <2>3. ~(calls' = 0 /\ answered')
    BY <1>3, <1>6
  <2>4. CASE flight = <<>>
    <3>1. Len(flight) = 0 /\ Len(flight') = 1 /\ flight'[1] = v
      BY <1>0, <2>1, <2>4, EmptySeq
    <3>2. Link'
      BY <2>1, <2>2, <2>3, <3>1 DEF Link, VRef
    <3>3. Settled /\ v.name \notin OutputWrites => Settled'
      BY <2>2, <3>1 DEF Settled
    <3> QED
      BY <1>1, <1>2, <1>3, <1>6, <2>2, <3>2, <3>3
  <2>5. CASE flight # <<>>
    <3>1. 1 \in 1..Len(flight) /\ flight'[1] = flight[1] /\ ~v.alone
      BY <1>0, <2>1, <2>5, EmptySeq
    <3>2. \A k \in 2..Len(flight') : ~flight'[k].alone
      <4>1. \A k \in 2..Len(flight') : k = Len(flight) + 1 \/ k \in 2..Len(flight)
        BY <1>0, <2>1
      <4>2. \A k \in 2..Len(flight) : flight'[k] = flight[k]
        BY <2>1
      <4> QED
        BY <2>1, <3>1, <4>1, <4>2 DEF Link
    <3>3. Link'
      BY <2>1, <2>2, <2>3, <2>5, <3>1, <3>2 DEF Link, VRef
    <3>4. ASSUME Settled, v.name \notin OutputWrites
          PROVE  Settled'
      <4>1. \A k \in 1..Len(flight') : k = Len(flight) + 1 \/ k \in 1..Len(flight)
        BY <1>0, <2>1
      <4> QED
        BY <2>1, <2>2, <3>4, <4>1 DEF Settled
    <3> QED
      BY <1>1, <1>2, <1>3, <2>2, <2>5, <3>3, <3>4
  <2> QED
    BY <2>4, <2>5
<1> QED
  BY <1>4, <1>5, <1>6 DEF Exchange

(* The verb to do next is the one at the sequence's place.                 *)
LEMMA AtVerb ==
  ASSUME NEW s \in {boot, disablePinWidget}, NEW i \in 1..13, NEW j \in 2..12,
         Place(s, i, j), NEW verb, Does(verb)
  PROVE  s \in Seq(Verbs) /\ i \in 1..Len(s) /\ j \in i..Len(s) /\ s[i] = verb
<1>1. s \in Seq(Verbs) /\ j \in 1..Len(s)
  <2>1. CASE s = boot /\ j \in {4, 6, 7, 12}
    BY <2>1, BootVerbs
  <2>2. CASE s = disablePinWidget /\ j = 2
    BY <2>2, DisableVerbs
  <2> QED
    BY <2>1, <2>2 DEF Place, Shape
<1>2. i <= j
  <2>1. ASSUME j < i
        PROVE  FALSE
    <3>1. SubSeq(s, i, j) = <<>>
      BY <2>1, SubSeqEmpty
    <3> QED
      BY <3>1 DEF Place, Does
  <2> QED
    BY <2>1
<1>3. i \in 1..Len(s) /\ j \in i..Len(s)
  BY <1>1, <1>2
<1>4. Head(SubSeq(s, i, j)) = s[i]
  BY <1>1, <1>3, PartHead
<1> QED
  BY <1>1, <1>3, <1>4 DEF Place, Does

(* Doing a verb, and skipping those an early return skips, moves the       *)
(* place.                                                                  *)
LEMMA Skips ==
  ASSUME NEW s \in {boot, disablePinWidget}, NEW i \in 1..13, NEW j \in 2..12,
         Place(s, i, j), NEW verb, Does(verb),
         NEW k \in 1..3, i + k <= j + 1, Skip(k), calls' = calls
  PROVE  i + k \in 1..13 /\ Place(s, i + k, j)'
<1>1. s \in Seq(Verbs) /\ i \in 1..Len(s) /\ j \in i..Len(s)
  BY AtVerb
<1>2. k \in 1..(j - i + 1)
  OBVIOUS
<1>3. SubSeq(SubSeq(s, i, j), k + 1, Len(SubSeq(s, i, j))) = SubSeq(s, i + k, j)
  BY <1>1, <1>2, PartSkip
<1>4. todo' = SubSeq(s, i + k, j)
  BY <1>3 DEF Place, Skip
<1>5. Shape(s, i + k, j)'
  BY DEF Place, Shape
<1> QED
  BY <1>4, <1>5 DEF Place

(* Where each verb can be next.                                            *)
LEMMA Positions ==
  ASSUME NEW s \in {boot, disablePinWidget}, NEW i \in 1..13, NEW j \in 2..12,
         Place(s, i, j), NEW verb, Does(verb)
  PROVE  /\ verb = "getID" => s = boot /\ i = 1 /\ j = 12
         /\ verb = "getCap" => s = boot /\ i = 2 /\ j >= 4
         /\ verb = "setStream" => s = boot /\ i = 3 /\ j >= 4
         /\ verb = "setVolume" => s = boot /\ i = 4 /\ j >= 4
         /\ verb = "getPin" => \/ s = boot /\ i = 5 /\ j >= 6
                               \/ s = disablePinWidget /\ i = 1 /\ j = 2 /\ calls # 0
         /\ verb = "enablePin" => s = boot /\ i = 6 /\ j >= 6
         /\ verb = "disablePin" => s = disablePinWidget /\ i = 2 /\ j = 2 /\ calls # 0
         /\ verb = "getFormat" => s = boot /\ i = 7 /\ (j = 7 \/ j = 12)
         /\ verb = "setFormat" => s = boot /\ i = 8 /\ j = 12
         /\ verb = "unmuteMixerIn" => s = boot /\ i = 9 /\ j = 12
         /\ verb = "unmuteMixer" => s = boot /\ i = 10 /\ j = 12
         /\ verb = "unmutePinIn" => s = boot /\ i = 11 /\ j = 12
         /\ verb = "unmutePin" => s = boot /\ i = 12 /\ j = 12
<1>1. s[i] = verb /\ i <= j
  <2>1. s \in Seq(Verbs) /\ i \in 1..Len(s) /\ j \in i..Len(s) /\ s[i] = verb
    BY AtVerb
  <2> QED
    BY <2>1
<1>2. CASE s = boot
  <2>1. i \in 1..12 /\ boot[i] = verb
    BY <1>1, <1>2, BootVerbs
  <2>2. /\ j \in {4, 6, 7, 12} /\ (j = 4 => i \in 2..4) /\ (j = 6 => i \in 5..6)
        /\ (j = 7 => i = 7) /\ (j = 12 => calls = 0)
    BY <1>1, <1>2, Apart DEF Place, Shape
  <2> QED
    BY <1>2, <2>1, <2>2, BootVerbs
<1>3. CASE s = disablePinWidget
  <2>1. i \in 1..2 /\ j = 2 /\ calls # 0
    BY <1>1, <1>3, Apart DEF Place, Shape
  <2> QED
    BY <1>1, <1>3, <2>1, DisableVerbs
<1> QED
  BY <1>2, <1>3

(* At a verb, what must hold before it holds.                              *)
LEMMA Fetched ==
  ASSUME NEW s \in {boot, disablePinWidget}, NEW i \in 1..13, NEW j \in 2..12,
         At(s, i, j), NEW verb, Does(verb)
  PROVE  Before(verb)
<1>1. Place(s, i, j)
  BY DEF At
<1>2. i <= j /\ s[i] = verb
  <2>1. s \in Seq(Verbs) /\ i \in 1..Len(s) /\ j \in i..Len(s) /\ s[i] = verb
    BY <1>1, AtVerb
  <2> QED
    BY <2>1
<1> QED
  BY <1>2 DEF At

(* A verb as it is sent.                                                   *)
LEMMA SafeVerb ==
  ASSUME NEW verb \in Verbs, NEW operand \in Byte, Harmless(Verb(verb, operand))
  PROVE  /\ Verb(verb, operand) \in SafeVerbs
         /\ Verb(verb, operand).name = verb /\ Verb(verb, operand).operand = operand
         /\ Verb(verb, operand).alone => pinAlone /\ verb \in PinWrites
<1>1. (pinAlone /\ verb \in PinWrites) \in BOOLEAN
  OBVIOUS
<1>2. Verb(verb, operand) \in Sent
  BY <1>1, Zenon DEF Verb, Sent
<1> QED
  BY <1>2 DEF SafeVerbs, Verb

(* What setOutputNode sends, and getPin and its like.                      *)
LEMMA OutputVerbs ==
  ASSUME value \in Nat
  PROVE  /\ Verb("getCap", 0) \in SafeVerbs /\ Verb("getPin", 0) \in SafeVerbs
         /\ Verb("getCap", 0).name = "getCap" /\ ~Verb("getCap", 0).alone
         /\ Verb("getPin", 0).name = "getPin" /\ ~Verb("getPin", 0).alone
         /\ Verb("setStream", StreamNumber) \in SafeVerbs
         /\ Verb("setStream", StreamNumber).name = "setStream"
         /\ Verb("setStream", StreamNumber).operand = StreamNumber
         /\ ~Verb("setStream", StreamNumber).alone
         /\ Verb("setVolume", Step(value)) \in SafeVerbs
         /\ Verb("setVolume", Step(value)).name = "setVolume"
         /\ Verb("setVolume", Step(value)).operand = Step(value)
         /\ ~Verb("setVolume", Step(value)).alone
<1>1. /\ {"getCap", "getPin", "setStream", "setVolume"} \subseteq Verbs
      /\ {"getCap", "getPin", "setStream", "setVolume"} \cap PinWrites = {}
  BY DEF Verbs, PinWrites
<1>2. Step(value) \in 0..127
  BY DEF Step
<1>3. 0 \in Byte /\ StreamNumber \in Byte /\ Step(value) \in Byte /\ Step(value) < Muted
  BY <1>2, Gains DEF Byte, StreamNumber
<1>4. /\ Harmless(Verb("getCap", 0)) /\ Harmless(Verb("getPin", 0))
      /\ Harmless(Verb("setStream", StreamNumber))
      /\ Harmless(Verb("setVolume", Step(value)))
  BY <1>1, <1>3, Targets DEF Harmless, Verb
<1> QED
  BY <1>1, <1>3, <1>4, SafeVerb

(* Each action keeps what holds at every place, and moves to a place where *)
(* what must hold does. A verb whose response is not used, and after which *)
(* the next one needs nothing that it does not need itself:                *)
LEMMA JustKeeps ==
  ASSUME NEW s \in {boot, disablePinWidget}, NEW i \in 1..13, NEW j \in 2..12,
         Good, At(s, i, j), NEW verb \in Verbs, NEW operand \in Byte,
         Just(verb, operand), verb \notin OutputWrites,
         Harmless(Verb(verb, operand)),
         verb \in PinWrites /\ pinAlone => flight = <<>> /\ VRef(operand) = VRef(control)
  PROVE  /\ Good' /\ i + 1 \in 1..13 /\ Place(s, i + 1, j)'
         /\ UNCHANGED <<callVars, value, outputOK, outputAlone, pinAlone>>
         /\ calls' = 0 /\ answered' =>
              calls = 0 /\ answered /\ OpenTo(i) /\ Executed(Verb(verb, operand))
<1>1. PICK r \in Responses : Sends(verb, operand, r)
  BY DEF Just
<1>2. /\ Place(s, i, j) /\ Does(verb) /\ Exchange(Verb(verb, operand), r)
      /\ Skip(1) /\ UNCHANGED <<callVars, value, outputOK, outputAlone, pinAlone>>
  BY <1>1 DEF At, Sends, Just
<1>3. /\ Verb(verb, operand) \in SafeVerbs
      /\ Verb(verb, operand).name = verb /\ Verb(verb, operand).operand = operand
      /\ Verb(verb, operand).alone => pinAlone /\ verb \in PinWrites
  BY SafeVerb
<1>4. /\ Codec' /\ Link' /\ answered' \in BOOLEAN
      /\ Settled => Settled'
      /\ flight = <<>> /\ r # NoResponse => Executed(Verb(verb, operand))
      /\ calls' = 0 /\ answered' =>
           calls = 0 /\ answered /\ flight = <<>> /\ r # NoResponse
  BY <1>2, <1>3, ExchangeKeepsLink DEF Good
<1>5. Good'
  <2>1. Ranges'
    BY <1>2, <1>4 DEF Good, Ranges, callVars, Collected
  <2>2. OutputSettled'
    BY <1>2, <1>4 DEF Good, OutputSettled
  <2> QED
    BY <1>4, <2>1, <2>2 DEF Good
<1>6. i + 1 \in 1..13 /\ Place(s, i + 1, j)'
  <2>1. i <= j
    <3>1. s \in Seq(Verbs) /\ j \in i..Len(s)
      BY <1>2, AtVerb
    <3> QED
      BY <3>1
  <2>2. i + 1 <= j + 1 /\ calls' = calls
    BY <1>2, <2>1 DEF callVars
  <2> QED
    BY <1>2, <2>2, Skips
<1>7. calls' = 0 /\ answered' =>
        calls = 0 /\ answered /\ OpenTo(i) /\ Executed(Verb(verb, operand))
  BY <1>4 DEF At
<1> QED
  BY <1>2, <1>5, <1>6, <1>7

(* What was open stays open if neither the codec nor the database changes. *)
LEMMA StaysOpen ==
  ASSUME NEW i, OpenTo(i), UNCHANGED <<db, outputAlone, codecVars>>
  PROVE  OpenTo(i)'
  BY DEF OpenTo, PinOpen, OutputEnabled, InputEnabled, codecVars

(* Reading the codec's identity.                                           *)
LEMMA GetIDKeeps ==
  ASSUME NEW s \in {boot, disablePinWidget}, NEW i \in 1..13, NEW j \in 2..12,
         Good, At(s, i, j), GetID
  PROVE  Good' /\ \E m \in 1..13 : At(s, m, j)'
<1>1. Place(s, i, j) /\ Does("getID")
  BY DEF At, GetID, Just, Sends
<1>2. s = boot /\ i = 1 /\ j = 12 /\ outputOK = "none"
  BY <1>1, Positions, Fetched DEF Before
<1>3. "getID" \in Verbs /\ 0 \in Byte /\ "getID" \notin OutputWrites \cup PinWrites
  BY DEF Verbs, Byte, OutputWrites, PinWrites
<1>4. Harmless(Verb("getID", 0))
  BY <1>3, Targets DEF Harmless, Verb
<1>5. Good' /\ Place(s, 2, j)' /\ outputOK' = outputOK
  BY <1>2, <1>3, <1>4, JustKeeps DEF GetID
<1>6. Before(s[2])' /\ OpenTo(2)'
  BY <1>2, <1>5, BootVerbs DEF Before, OpenTo, OutputWrites, PinWrites
<1> QED
  BY <1>2, <1>5, <1>6 DEF At

(* Reading the converter's capabilities; without a response setOutputNode  *)
(* returns false and its other verbs are skipped.                          *)
LEMMA GetCapKeeps ==
  ASSUME NEW s \in {boot, disablePinWidget}, NEW i \in 1..13, NEW j \in 2..12,
         Good, At(s, i, j), GetCap
  PROVE  Good' /\ \E m \in 1..13 : At(s, m, j)'
<1>1. PICK r \in Responses :
        /\ Sends("getCap", 0, r)
        /\ \/ r # NoResponse /\ value' = r /\ Skip(1) /\ UNCHANGED outputOK
           \/ r = NoResponse /\ UNCHANGED value /\ Skip(3) /\ outputOK' = "false"
  BY DEF GetCap
<1>2. /\ Place(s, i, j) /\ Does("getCap") /\ Exchange(Verb("getCap", 0), r)
      /\ UNCHANGED <<callVars, pinAlone>> /\ outputAlone' = (flight = <<>>)
  BY <1>1 DEF At, Sends, GetCap
<1>3. s = boot /\ i = 2 /\ j >= 4 /\ outputOK = "none" /\ calls' = calls
  BY <1>2, Positions, Fetched DEF Before, callVars
<1>4. value \in Nat
  BY DEF Good, Ranges
<1>5. /\ Codec' /\ Link' /\ answered' \in BOOLEAN
      /\ r # NoResponse => r \in Nat
      /\ flight = <<>> /\ r # NoResponse => r = Capabilities /\ flight' = <<>>
      /\ calls' = 0 /\ answered' => flight = <<>> /\ r # NoResponse
  <2>1. Answers(Verb("getCap", 0)) = {Capabilities}
    BY DEF Answers, Verb
  <2> QED
    BY <1>2, <1>4, <2>1, OutputVerbs, ExchangeKeepsLink DEF Good
<1>6. Good'
  <2>1. outputOK' # "true" /\ value' \in Nat /\ outputAlone' \in BOOLEAN
    BY <1>1, <1>2, <1>3, <1>4, <1>5
  <2>2. Ranges'
    BY <1>2, <1>5, <2>1 DEF Good, Ranges, callVars, Collected
  <2>3. OutputSettled'
    BY <2>1 DEF OutputSettled
  <2> QED
    BY <1>5, <2>2, <2>3 DEF Good
<1>7. CASE r # NoResponse
  <2>1. Place(s, 3, j)' /\ value' = r /\ outputOK' = "none"
    BY <1>1, <1>2, <1>3, <1>7, Skips
  <2>2. outputAlone' => flight' = <<>> /\ Step(value') = Steps["converter"]
    BY <1>2, <1>5, <1>7, <2>1, AnswersAssumption DEF Step
  <2>3. Before(s[3])'
    BY <1>3, <2>1, <2>2, BootVerbs DEF Before, OutputWrites, PinWrites, Step
  <2>4. ASSUME calls' = 0, answered'
        PROVE  OpenTo(3)'
    <3>1. outputAlone'
      BY <1>2, <1>5, <2>4, Zenon
    <3> QED
      BY <3>1 DEF OpenTo
  <2> QED
    BY <1>3, <1>6, <2>1, <2>3, <2>4 DEF At
<1>8. CASE r = NoResponse
  <2>1. Place(s, 5, j)'
    BY <1>1, <1>2, <1>3, <1>8, Skips
  <2>2. Before(s[5])'
    BY <1>3, BootVerbs DEF Before, OutputWrites, PinWrites
  <2> QED
    BY <1>3, <1>5, <1>6, <1>8, <2>1, <2>2 DEF At
<1> QED
  BY <1>7, <1>8

(* Putting the converter on the stream; the same early return.             *)
LEMMA SetStreamKeeps ==
  ASSUME NEW s \in {boot, disablePinWidget}, NEW i \in 1..13, NEW j \in 2..12,
         Good, At(s, i, j), SetStream
  PROVE  Good' /\ \E m \in 1..13 : At(s, m, j)'
<1>1. PICK r \in Responses :
        /\ Sends("setStream", StreamNumber, r)
        /\ \/ r # NoResponse /\ Skip(1) /\ UNCHANGED outputOK
           \/ r = NoResponse /\ Skip(2) /\ outputOK' = "false"
  BY DEF SetStream
<1> DEFINE v == Verb("setStream", StreamNumber)
<1>2. /\ Place(s, i, j) /\ Does("setStream") /\ Exchange(v, r)
      /\ UNCHANGED <<callVars, value, outputAlone, pinAlone>>
  BY <1>1 DEF At, Sends, SetStream
<1>3. /\ s = boot /\ i = 3 /\ j >= 4 /\ outputOK = "none" /\ calls' = calls
      /\ outputAlone => flight = <<>> /\ Step(value) = Steps["converter"]
  <2>1. s = boot /\ i = 3 /\ j >= 4 /\ Before("setStream")
    BY <1>2, Positions, Fetched
  <2> QED
    BY <1>2, <2>1 DEF Before, OutputWrites, callVars
<1>4. value \in Nat
  BY DEF Good, Ranges
<1>5. /\ Codec' /\ Link' /\ answered' \in BOOLEAN
      /\ flight = <<>> /\ r # NoResponse => Executed(v) /\ flight' = <<>>
      /\ calls' = 0 /\ answered' =>
           calls = 0 /\ answered /\ flight = <<>> /\ r # NoResponse
  BY <1>2, <1>4, OutputVerbs, ExchangeKeepsLink DEF Good
<1>6. Good'
  <2>1. outputOK' # "true"
    BY <1>1, <1>3
  <2>2. Ranges'
    BY <1>2, <1>5 DEF Good, Ranges, callVars, Collected
  <2>3. OutputSettled'
    BY <2>1 DEF OutputSettled
  <2> QED
    BY <1>5, <2>2, <2>3 DEF Good
<1>7. flight = <<>> /\ r # NoResponse => stream' = StreamNumber /\ flight' = <<>>
  BY <1>4, <1>5, OutputVerbs DEF Executed
<1>8. CASE r # NoResponse
  <2>1. Place(s, 4, j)' /\ outputOK' = "none"
    BY <1>1, <1>2, <1>3, <1>8, Skips
  <2>2. /\ outputAlone' => stream' = StreamNumber /\ flight' = <<>>
        /\ outputAlone' => Step(value') = Steps["converter"]
    BY <1>2, <1>3, <1>7, <1>8 DEF Step
  <2>3. Before(s[4])'
    BY <1>3, <2>1, <2>2, BootVerbs DEF Before, OutputWrites, PinWrites, Step
  <2>4. calls' = 0 /\ answered' => OpenTo(4)'
    <3>1. calls' = 0 /\ answered' => OpenTo(3)
      BY <1>3, <1>5 DEF At
    <3> QED
      BY <1>2, <1>5, <1>7, <3>1 DEF OpenTo
  <2> QED
    BY <1>3, <1>6, <2>1, <2>3, <2>4 DEF At
<1>9. CASE r = NoResponse
  <2>1. Place(s, 5, j)'
    BY <1>1, <1>2, <1>3, <1>9, Skips
  <2>2. Before(s[5])'
    BY <1>3, BootVerbs DEF Before, OutputWrites, PinWrites
  <2> QED
    BY <1>3, <1>5, <1>6, <1>9, <2>1, <2>2 DEF At
<1> QED
  BY <1>8, <1>9

(* Unmuting the converter at the step read: only here setOutputNode may    *)
(* answer true, the converter being on its stream if it began alone.       *)
LEMMA SetVolumeKeeps ==
  ASSUME NEW s \in {boot, disablePinWidget}, NEW i \in 1..13, NEW j \in 2..12,
         Good, At(s, i, j), SetVolume
  PROVE  Good' /\ \E m \in 1..13 : At(s, m, j)'
<1>1. PICK r \in Responses :
        /\ Sends("setVolume", Step(value), r)
        /\ outputOK' = IF r # NoResponse THEN "true" ELSE "false"
  BY DEF SetVolume
<1> DEFINE v == Verb("setVolume", Step(value))
<1>2. /\ Place(s, i, j) /\ Does("setVolume") /\ Exchange(v, r) /\ Skip(1)
      /\ UNCHANGED <<callVars, value, outputAlone, pinAlone>>
  BY <1>1 DEF At, Sends, SetVolume
<1>3. /\ s = boot /\ i = 4 /\ j >= 4 /\ calls' = calls
      /\ outputAlone => /\ flight = <<>> /\ Step(value) = Steps["converter"]
                       /\ stream = StreamNumber
  <2>1. s = boot /\ i = 4 /\ j >= 4 /\ Before("setVolume")
    BY <1>2, Positions, Fetched
  <2> QED
    BY <1>2, <2>1 DEF Before, OutputWrites, callVars
<1>4. value \in Nat
  BY DEF Good, Ranges
<1>5. /\ Codec' /\ Link' /\ answered' \in BOOLEAN
      /\ flight = <<>> /\ r # NoResponse => Executed(v) /\ flight' = <<>>
      /\ calls' = 0 /\ answered' =>
           calls = 0 /\ answered /\ flight = <<>> /\ r # NoResponse
  BY <1>2, <1>4, OutputVerbs, ExchangeKeepsLink DEF Good
<1>6. ASSUME flight = <<>>, r # NoResponse
      PROVE  /\ flight' = <<>> /\ stream' = stream
             /\ amps'["converter"] = Step(value)
  <2>1. /\ Executed(v) /\ flight' = <<>>
        /\ v.name = "setVolume" /\ v.operand = Step(value)
    BY <1>4, <1>5, <1>6, OutputVerbs
  <2>2. stream' = stream /\ amps' = [amps EXCEPT !["converter"] = Step(value)]
    BY <2>1, Targets DEF Executed
  <2> QED
    BY <2>1, <2>2 DEF Good, Codec, Amplifiers, Nodes
<1>7. Good'
  <2>1. Ranges'
    BY <1>2, <1>5 DEF Good, Ranges, callVars, Collected
  <2>2. ASSUME outputOK' = "true", outputAlone'
        PROVE  Settled'
    <3>1. outputAlone /\ r # NoResponse
      BY <1>1, <1>2, <2>2
    <3>2. flight' = <<>> /\ Playing'
      BY <1>3, <1>6, <3>1 DEF Playing
    <3> QED
      BY <3>2 DEF Settled
  <2> QED
    BY <1>5, <2>1, <2>2 DEF Good, OutputSettled
<1>8. Place(s, 5, j)'
  BY <1>2, <1>3, Skips
<1>9. Before(s[5])'
  BY <1>3, BootVerbs DEF Before, OutputWrites, PinWrites
<1>10. ASSUME calls' = 0, answered'
       PROVE  OpenTo(5)'
  <2>1. OpenTo(4) /\ flight = <<>> /\ r # NoResponse
    BY <1>3, <1>5, <1>10 DEF At
  <2>2. outputAlone /\ outputAlone' /\ stream = StreamNumber
    BY <1>2, <2>1 DEF OpenTo
  <2> QED
    BY <1>3, <1>6, <2>1, <2>2 DEF OpenTo
<1> QED
  BY <1>3, <1>7, <1>8, <1>9, <1>10 DEF At

(* A node that is not a pin is left alone, and the way is then open past   *)
(* the pin as far as the database knows.                                   *)
LEMMA NotAPinKeeps ==
  ASSUME NEW s \in {boot, disablePinWidget}, NEW i \in 1..13, NEW j \in 2..12,
         Good, At(s, i, j), NotAPin
  PROVE  Good' /\ \E m \in 1..13 : At(s, m, j)'
<1>1. /\ Place(s, i, j) /\ Does("getPin") /\ Skip(2) /\ ~db.pin
      /\ UNCHANGED <<callVars, value, outputOK, flight, history, codecVars>>
  BY DEF At, NotAPin
<1>2. /\ \/ s = boot /\ i = 5 /\ j >= 6
         \/ s = disablePinWidget /\ i = 1 /\ j = 2 /\ calls # 0
      /\ calls' = calls /\ answered' = answered
  BY <1>1, Positions DEF callVars, history
<1>3. Good'
  BY <1>1 DEF Good, Ranges, Codec, Link, OutputSettled, Settled, Playing, Collected,
     callVars, history, codecVars, VRef
<1>4. i + 2 \in 1..13 /\ Place(s, i + 2, j)'
  BY <1>1, <1>2, Skips
<1>5. i + 2 <= j => Before(s[i + 2])'
  BY <1>2, BootVerbs DEF Before, OutputWrites, PinWrites
<1>6. ASSUME calls' = 0, answered'
      PROVE  OpenTo(i + 2)'
  <2>1. OpenTo(5) /\ i = 5
    BY <1>2, <1>6 DEF At
  <2>2. OpenTo(5)'
    BY <1>1, <2>1, StaysOpen DEF callVars, history
  <2>3. ~db.pin'
    BY <1>1 DEF callVars
  <2> QED
    BY <2>1, <2>2, <2>3 DEF OpenTo
<1> QED
  BY <1>3, <1>4, <1>5, <1>6 DEF At

(* Reading the pin's control; without a response nothing is written.       *)
LEMMA GetPinKeeps ==
  ASSUME NEW s \in {boot, disablePinWidget}, NEW i \in 1..13, NEW j \in 2..12,
         Good, At(s, i, j), GetPin, ~NotAPin
  PROVE  Good' /\ \E m \in 1..13 : At(s, m, j)'
<1>1. PICK r \in Responses :
        /\ Sends("getPin", 0, r)
        /\ \/ r # NoResponse /\ value' = r /\ Skip(1)
           \/ r = NoResponse /\ UNCHANGED value /\ Skip(2)
  BY DEF GetPin
<1>2. /\ Place(s, i, j) /\ Does("getPin") /\ Exchange(Verb("getPin", 0), r)
      /\ UNCHANGED <<callVars, outputOK, outputAlone>> /\ pinAlone' = (flight = <<>>)
  BY <1>1 DEF At, Sends, GetPin
<1>3. /\ \/ s = boot /\ i = 5 /\ j >= 6
         \/ s = disablePinWidget /\ i = 1 /\ j = 2 /\ calls # 0
      /\ calls' = calls
  BY <1>2, Positions DEF callVars
<1>4. value \in Nat
  BY DEF Good, Ranges
<1>5. /\ Codec' /\ Link' /\ answered' \in BOOLEAN
      /\ Settled => Settled'
      /\ r # NoResponse => r \in Nat
      /\ flight = <<>> /\ r # NoResponse =>
           r = control /\ Executed(Verb("getPin", 0)) /\ flight' = <<>>
      /\ calls' = 0 /\ answered' =>
           calls = 0 /\ answered /\ flight = <<>> /\ r # NoResponse
  <2>1. Answers(Verb("getPin", 0)) = {control}
    BY DEF Answers, Verb
  <2>2. "getPin" \notin OutputWrites
    BY DEF OutputWrites
  <2> QED
    BY <1>2, <1>4, <2>1, <2>2, OutputVerbs, ExchangeKeepsLink DEF Good
<1>6. Good'
  <2>1. value' \in Nat /\ pinAlone' \in BOOLEAN
    BY <1>1, <1>2, <1>4, <1>5
  <2>2. Ranges'
    BY <1>2, <1>5, <2>1 DEF Good, Ranges, callVars, Collected
  <2>3. OutputSettled'
    BY <1>2, <1>5 DEF Good, OutputSettled
  <2> QED
    BY <1>5, <2>2, <2>3 DEF Good
<1>7. Executed(Verb("getPin", 0)) => UNCHANGED codecVars
  <2>1. "getPin" \notin DOMAIN Target \cup PinWrites
    BY Targets DEF PinWrites
  <2> QED
    BY <1>4, <2>1, OutputVerbs DEF Executed, codecVars
<1>8. CASE r # NoResponse
  <2>1. i + 1 \in 1..13 /\ Place(s, i + 1, j)' /\ value' = r
    BY <1>1, <1>2, <1>3, <1>8, Skips
  <2>2. Before(s[i + 1])'
    <3>1. s[i + 1] \in PinWrites
      BY <1>3, BootVerbs, DisableVerbs DEF PinWrites
    <3>2. s[i + 1] \notin {"getID", "getCap"} \cup OutputWrites /\ s[i + 1] # "setVolume"
      BY <3>1 DEF PinWrites, OutputWrites
    <3>3. pinAlone' => flight' = <<>> /\ value' = control'
      BY <1>2, <1>5, <1>7, <1>8, <2>1 DEF codecVars
    <3> QED
      BY <3>1, <3>2, <3>3 DEF Before
  <2>3. ASSUME calls' = 0, answered'
        PROVE  OpenTo(i + 1)'
    <3>1. OpenTo(5) /\ i = 5 /\ UNCHANGED codecVars
      BY <1>3, <1>5, <1>7, <2>3 DEF At
    <3>2. OpenTo(5)'
      BY <1>2, <3>1, StaysOpen DEF callVars
    <3> QED
      BY <3>1, <3>2 DEF OpenTo
  <2> QED
    BY <1>3, <1>6, <2>1, <2>2, <2>3 DEF At
<1>9. CASE r = NoResponse
  <2>1. i + 2 \in 1..13 /\ Place(s, i + 2, j)'
    BY <1>1, <1>2, <1>3, <1>9, Skips
  <2>2. i + 2 <= j => Before(s[i + 2])'
    BY <1>3, BootVerbs DEF Before, OutputWrites, PinWrites
  <2> QED
    BY <1>5, <1>6, <1>9, <2>1, <2>2 DEF At
<1> QED
  BY <1>8, <1>9

(* Enabling the pin's output opens the way through it.                     *)
LEMMA EnablePinKeeps ==
  ASSUME NEW s \in {boot, disablePinWidget}, NEW i \in 1..13, NEW j \in 2..12,
         Good, At(s, i, j), EnablePin
  PROVE  Good' /\ \E m \in 1..13 : At(s, m, j)'
<1>1. Place(s, i, j) /\ Does("enablePin")
  BY DEF At, EnablePin, Just, Sends
<1>2. /\ s = boot /\ i = 6 /\ j >= 6
      /\ pinAlone => flight = <<>> /\ value = control
  <2>1. s = boot /\ i = 6 /\ j >= 6 /\ Before("enablePin")
    BY <1>1, Positions, Fetched
  <2> QED
    BY <2>1 DEF Before, PinWrites
<1>3. value \in Nat
  BY DEF Good, Ranges
<1>4. /\ VRef(Enabled(value)) = VRef(value) /\ Enabled(value) \in Byte
      /\ OutputEnabled(Enabled(value)) /\ ~InputEnabled(Enabled(value))
  BY <1>3, EnabledByte, Zenon
<1>5. /\ "enablePin" \in Verbs /\ "enablePin" \in PinWrites
      /\ "enablePin" \notin OutputWrites \cup DOMAIN Target
  BY Targets DEF Verbs, PinWrites, OutputWrites
<1>6. Harmless(Verb("enablePin", Enabled(value)))
  BY <1>4, <1>5 DEF Harmless, Verb
<1>7. pinAlone => flight = <<>> /\ VRef(Enabled(value)) = VRef(control)
  BY <1>2, <1>4
<1>8. /\ Good' /\ Place(s, 7, j)'
      /\ UNCHANGED <<callVars, outputAlone>>
      /\ calls' = 0 /\ answered' =>
           calls = 0 /\ answered /\ OpenTo(6) /\ Executed(Verb("enablePin", Enabled(value)))
  BY <1>2, <1>4, <1>5, <1>6, <1>7, JustKeeps DEF EnablePin
<1>9. Before(s[7])'
  BY <1>2, BootVerbs DEF Before, OutputWrites, PinWrites
<1>10. ASSUME calls' = 0, answered'
       PROVE  OpenTo(7)'
  <2>1. control' = Enabled(value) /\ UNCHANGED <<stream, format, amps>>
    BY <1>5, <1>8, <1>10 DEF Executed, Verb, OutputWrites
  <2>2. PinOpen'
    BY <1>4, <2>1 DEF PinOpen, OutputEnabled, InputEnabled
  <2> QED
    BY <1>8, <1>10, <2>1, <2>2 DEF OpenTo
<1> QED
  BY <1>2, <1>8, <1>9, <1>10 DEF At

(* Disabling it happens in later calls only.                               *)
LEMMA DisablePinKeeps ==
  ASSUME NEW s \in {boot, disablePinWidget}, NEW i \in 1..13, NEW j \in 2..12,
         Good, At(s, i, j), DisablePin
  PROVE  Good' /\ \E m \in 1..13 : At(s, m, j)'
<1>1. Place(s, i, j) /\ Does("disablePin")
  BY DEF At, DisablePin, Just, Sends
<1>2. /\ s = disablePinWidget /\ i = 2 /\ j = 2 /\ calls # 0
      /\ pinAlone => flight = <<>> /\ value = control
  <2>1. s = disablePinWidget /\ i = 2 /\ j = 2 /\ calls # 0 /\ Before("disablePin")
    BY <1>1, Positions, Fetched
  <2> QED
    BY <2>1 DEF Before, PinWrites
<1>3. value \in Nat
  BY DEF Good, Ranges
<1>4. VRef(VRef(value)) = VRef(value) /\ ~InputEnabled(VRef(value)) /\ VRef(value) \in Byte
  BY <1>3, DisabledByte, Zenon
<1>5. /\ "disablePin" \in Verbs /\ "disablePin" \in PinWrites
      /\ "disablePin" \notin OutputWrites \cup DOMAIN Target
  BY Targets DEF Verbs, PinWrites, OutputWrites
<1>6. Harmless(Verb("disablePin", VRef(value)))
  BY <1>4, <1>5 DEF Harmless, Verb
<1>7. pinAlone => flight = <<>> /\ VRef(VRef(value)) = VRef(control)
  BY <1>2, <1>4
<1>8. Good' /\ Place(s, 3, j)' /\ UNCHANGED callVars
  BY <1>2, <1>4, <1>5, <1>6, <1>7, JustKeeps DEF DisablePin
<1>9. calls' # 0
  BY <1>2, <1>8 DEF callVars
<1> QED
  BY <1>2, <1>8, <1>9 DEF At

(* A verb the database knows no converter for is not sent.                 *)
LEMMA NotAConverterKeeps ==
  ASSUME NEW s \in {boot, disablePinWidget}, NEW i \in 1..13, NEW j \in 2..12,
         Good, At(s, i, j), NEW verb \in {"getFormat", "setFormat"}, NotAConverter(verb)
  PROVE  Good' /\ \E m \in 1..13 : At(s, m, j)'
<1>1. /\ Place(s, i, j) /\ Does(verb) /\ Skip(1) /\ ~db.converter
      /\ UNCHANGED <<callVars, value, outputOK, flight, history, codecVars>>
  BY DEF At, NotAConverter
<1>2. s = boot /\ i \in 7..8 /\ i <= j /\ calls' = calls /\ answered' = answered
  BY <1>1, Positions DEF callVars, history
<1>3. Good'
  BY <1>1 DEF Good, Ranges, Codec, Link, OutputSettled, Settled, Playing, Collected,
     callVars, history, codecVars, VRef
<1>4. i + 1 \in 1..13 /\ Place(s, i + 1, j)'
  BY <1>1, <1>2, Skips
<1>5. Before(s[i + 1])'
  BY <1>2, BootVerbs DEF Before, OutputWrites, PinWrites
<1>6. ASSUME calls' = 0, answered'
      PROVE  OpenTo(i + 1)'
  <2>1. OpenTo(i)
    BY <1>2, <1>6 DEF At
  <2>2. OpenTo(i)' /\ ~db.converter'
    BY <1>1, <2>1, StaysOpen DEF callVars, history
  <2> QED
    BY <1>2, <2>2 DEF OpenTo
<1> QED
  BY <1>3, <1>4, <1>5, <1>6 DEF At

(* Reading the converter's format, for printing.                           *)
LEMMA GetFormatKeeps ==
  ASSUME NEW s \in {boot, disablePinWidget}, NEW i \in 1..13, NEW j \in 2..12,
         Good, At(s, i, j), Just("getFormat", 0)
  PROVE  Good' /\ \E m \in 1..13 : At(s, m, j)'
<1>1. Place(s, i, j) /\ Does("getFormat")
  BY DEF At, Just, Sends
<1>2. s = boot /\ i = 7
  BY <1>1, Positions
<1>3. /\ "getFormat" \in Verbs /\ 0 \in Byte
      /\ "getFormat" \notin OutputWrites \cup PinWrites \cup DOMAIN Target
  BY Targets DEF Verbs, Byte, OutputWrites, PinWrites
<1>4. Harmless(Verb("getFormat", 0))
  BY <1>3 DEF Harmless, Verb
<1>5. /\ Good' /\ Place(s, 8, j)' /\ UNCHANGED <<callVars, outputAlone>>
      /\ calls' = 0 /\ answered' => OpenTo(7) /\ Executed(Verb("getFormat", 0))
  BY <1>2, <1>3, <1>4, JustKeeps
<1>6. Before(s[8])'
  BY <1>2, BootVerbs DEF Before, OutputWrites, PinWrites
<1>7. ASSUME calls' = 0, answered'
      PROVE  OpenTo(8)'
  <2>1. UNCHANGED codecVars
    BY <1>3, <1>5, <1>7 DEF Executed, Verb, codecVars, OutputWrites
  <2>2. OpenTo(7)'
    BY <1>5, <1>7, <2>1, StaysOpen DEF callVars
  <2> QED
    BY <2>2 DEF OpenTo
<1> QED
  BY <1>2, <1>5, <1>6, <1>7 DEF At

(* Writing the stream's format to the converter.                           *)
LEMMA SetFormatKeeps ==
  ASSUME NEW s \in {boot, disablePinWidget}, NEW i \in 1..13, NEW j \in 2..12,
         Good, At(s, i, j), Just("setFormat", Format)
  PROVE  Good' /\ \E m \in 1..13 : At(s, m, j)'
<1>1. Place(s, i, j) /\ Does("setFormat")
  BY DEF At, Just, Sends
<1>2. s = boot /\ i = 8
  BY <1>1, Positions
<1>3. /\ "setFormat" \in Verbs /\ Format \in Byte
      /\ "setFormat" \notin OutputWrites \cup PinWrites \cup DOMAIN Target
  BY Targets DEF Verbs, Byte, OutputWrites, PinWrites, Format
<1>4. Harmless(Verb("setFormat", Format))
  BY <1>3 DEF Harmless, Verb
<1>5. /\ Good' /\ Place(s, 9, j)' /\ UNCHANGED <<callVars, outputAlone>>
      /\ calls' = 0 /\ answered' => OpenTo(8) /\ Executed(Verb("setFormat", Format))
  BY <1>2, <1>3, <1>4, JustKeeps
<1>6. Before(s[9])'
  BY <1>2, BootVerbs DEF Before, OutputWrites, PinWrites
<1>7. ASSUME calls' = 0, answered'
      PROVE  OpenTo(9)'
  <2>1. format' = Format /\ UNCHANGED <<stream, control, amps, db>>
    BY <1>3, <1>5, <1>7 DEF Executed, Verb, callVars, OutputWrites
  <2>2. UNCHANGED PinOpen
    BY <2>1 DEF PinOpen, OutputEnabled, InputEnabled
  <2> QED
    BY <1>5, <1>7, <2>1, <2>2 DEF OpenTo
<1> QED
  BY <1>2, <1>5, <1>6, <1>7 DEF At

(* A verb of the unmute commands opens one amplifier, and leaves the       *)
(* others as they were.                                                    *)
LEMMA UnmuteKeeps ==
  ASSUME NEW s \in {boot, disablePinWidget}, NEW i \in 1..13, NEW j \in 2..12,
         NEW verb, NEW n \in {"mixer", "pin"}, NEW a \in Amplifiers,
         Good, At(s, i, j), Just(verb, Gain(n)),
         \/ verb = "unmuteMixerIn" /\ n = "mixer" /\ a = "mixerIn"
         \/ verb = "unmuteMixer" /\ n = "mixer" /\ a = "mixer"
         \/ verb = "unmutePinIn" /\ n = "pin" /\ a = "pinIn"
         \/ verb = "unmutePin" /\ n = "pin" /\ a = "pin"
  PROVE  Good' /\ \E m \in 1..13 : At(s, m, j)'
<1>1. Place(s, i, j) /\ Does(verb)
  BY DEF At, Just, Sends
<1>2. /\ s = boot /\ j = 12
      /\ \/ i = 9 /\ n = "mixer" /\ a = "mixerIn"
         \/ i = 10 /\ n = "mixer" /\ a = "mixer"
         \/ i = 11 /\ n = "pin" /\ a = "pinIn"
         \/ i = 12 /\ n = "pin" /\ a = "pin"
  BY <1>1, Positions
<1>3. Gain(n) \in 0..127 /\ Gain(n) \in Byte /\ Gain(n) < Muted /\ Gain(n) = db.gain[n]
  BY Gains DEF Good, Ranges, Databases, Gain
<1>4. /\ verb \in Verbs /\ verb \notin OutputWrites \cup PinWrites
      /\ verb \in DOMAIN Target /\ Target[verb] = a
  BY Targets DEF Verbs, OutputWrites, PinWrites
<1>5. Harmless(Verb(verb, Gain(n)))
  BY <1>3, <1>4 DEF Harmless, Verb
<1>6. /\ Good' /\ i + 1 \in 1..13 /\ Place(s, i + 1, j)'
      /\ UNCHANGED <<callVars, outputAlone>>
      /\ calls' = 0 /\ answered' =>
           calls = 0 /\ answered /\ OpenTo(i) /\ Executed(Verb(verb, Gain(n)))
  BY <1>3, <1>4, <1>5, JustKeeps
<1>7. i + 1 <= j => Before(s[i + 1])'
  <2>1. i + 1 <= j => s[i + 1] \in {"unmuteMixer", "unmutePinIn", "unmutePin"}
    BY <1>2, BootVerbs
  <2> QED
    BY <2>1 DEF Before, OutputWrites, PinWrites
<1>8. ASSUME calls' = 0, answered'
      PROVE  OpenTo(i + 1)'
  <2>1. /\ amps' = [amps EXCEPT ![a] = db.gain[n]] /\ OpenTo(i)
        /\ UNCHANGED <<stream, format, control, db, outputAlone>>
    BY <1>3, <1>4, <1>6, <1>8 DEF Executed, Verb, callVars, OutputWrites
  <2>2. amps'[a] = db.gain[n] /\ \A b \in Amplifiers : b # a => amps'[b] = amps[b]
    BY <2>1 DEF Good, Codec
  <2>3. db.gain[n] < Muted
    BY <1>3
  <2>4. UNCHANGED PinOpen
    BY <2>1 DEF PinOpen, OutputEnabled, InputEnabled
  <2>5. UNCHANGED amps["converter"]
    BY <1>2, <2>2 DEF Amplifiers, Nodes
  <2>6. CASE i = 9
    BY <1>2, <2>1, <2>2, <2>3, <2>4, <2>5, <2>6 DEF OpenTo
  <2>7. CASE i > 9
    <3>1. /\ \/ i = 10 /\ a = "mixer"
             \/ i = 11 /\ a = "pinIn"
             \/ i = 12 /\ a = "pin"
          /\ UNCHANGED amps["mixerIn"]
          /\ i > 10 => UNCHANGED amps["mixer"]
          /\ i > 11 => UNCHANGED amps["pinIn"]
      BY <1>2, <2>2, <2>7 DEF Amplifiers, Nodes
    <3> QED
      BY <1>2, <2>1, <2>2, <2>3, <2>4, <2>5, <2>7, <3>1 DEF OpenTo
  <2> QED
    BY <1>2, <2>6, <2>7
<1> QED
  BY <1>6, <1>7, <1>8 DEF At

(* The four verbs of the two unmute commands.                              *)
LEMMA UnmutesKeep ==
  ASSUME NEW s \in {boot, disablePinWidget}, NEW i \in 1..13, NEW j \in 2..12,
         Good, At(s, i, j), UnmuteMixer \/ UnmutePin
  PROVE  Good' /\ \E m \in 1..13 : At(s, m, j)'
<1>1. {"mixerIn", "mixer", "pinIn", "pin"} \subseteq Amplifiers
  BY DEF Amplifiers, Nodes
<1> QED
  BY <1>1, UnmuteKeeps DEF UnmuteMixer, UnmutePin

(* A verb that leaves the flight between two exchanges.                    *)
LEMMA SettleKeeps ==
  ASSUME NEW s \in {boot, disablePinWidget}, NEW i \in 1..13, NEW j \in 2..12,
         Good, At(s, i, j), Settle
  PROVE  Good' /\ At(s, i, j)'
<1>1. Codec' /\ Link' /\ (Settled => Settled') /\ ~(calls = 0 /\ answered)
  BY SettleKeepsLink DEF Good
<1>2. /\ flight # <<>> /\ UNCHANGED <<todo, callVars, value, outputOK, history>>
      /\ UNCHANGED <<calls, answered, outputAlone, pinAlone>>
  BY DEF Settle, history, callVars
<1>3. Good'
  <2>1. Ranges'
    BY <1>2 DEF Good, Ranges, callVars, Collected
  <2>2. OutputSettled'
    BY <1>1, <1>2 DEF Good, OutputSettled
  <2> QED
    BY <1>1, <2>1, <2>2 DEF Good
<1>4. Place(s, i, j)'
  BY <1>2 DEF At, Place, Shape
<1>5. Before(s[i]) => Before(s[i])'
  <2>1. Before(s[i]) => /\ ~(s[i] \in OutputWrites /\ outputAlone)
                        /\ ~(s[i] = "setVolume" /\ outputAlone)
                        /\ ~(s[i] \in PinWrites /\ pinAlone)
    BY <1>2 DEF Before, OutputWrites
  <2> QED
    BY <1>2, <2>1 DEF Before
<1> QED
  BY <1>1, <1>2, <1>3, <1>4, <1>5 DEF At

(* The functions called later are parts of the two sequences.              *)
LEMMA Parts ==
  /\ setOutputNode = SubSeq(boot, 2, 4)
  /\ enablePinWidget = SubSeq(boot, 5, 6)
  /\ disablePinWidget = SubSeq(disablePinWidget, 1, 2)
  /\ <<"getFormat">> = SubSeq(boot, 7, 7)
<1>1. /\ setOutputNode \in Seq(Verbs) /\ Len(setOutputNode) = 3
      /\ setOutputNode[1] = "getCap" /\ setOutputNode[2] = "setStream"
      /\ setOutputNode[3] = "setVolume"
      /\ enablePinWidget \in Seq(Verbs) /\ Len(enablePinWidget) = 2
      /\ enablePinWidget[1] = "getPin" /\ enablePinWidget[2] = "enablePin"
  BY DEF setOutputNode, enablePinWidget, Verbs
<1>2. /\ SubSeq(boot, 2, 4) \in Seq(Verbs) /\ Len(SubSeq(boot, 2, 4)) = 3
      /\ \A k \in 1..3 : SubSeq(boot, 2, 4)[k] = boot[2 + k - 1]
  <2>1. boot \in Seq(Verbs) /\ \A m \in 2..4 : m \in 1..Len(boot)
    BY BootVerbs
  <2>2. \A m \in 2..4 : boot[m] \in Verbs
    BY <2>1, ElementOfSeq
  <2> QED
    BY <2>2, SubSeqProperties
<1>3. /\ SubSeq(boot, 5, 6) \in Seq(Verbs) /\ Len(SubSeq(boot, 5, 6)) = 2
      /\ \A k \in 1..2 : SubSeq(boot, 5, 6)[k] = boot[5 + k - 1]
  <2>1. boot \in Seq(Verbs) /\ \A m \in 5..6 : m \in 1..Len(boot)
    BY BootVerbs
  <2>2. \A m \in 5..6 : boot[m] \in Verbs
    BY <2>1, ElementOfSeq
  <2> QED
    BY <2>2, SubSeqProperties
<1>4. setOutputNode = SubSeq(boot, 2, 4)
  <2>1. \A k \in 1..3 : setOutputNode[k] = SubSeq(boot, 2, 4)[k]
    BY <1>1, <1>2, BootVerbs
  <2> QED
    BY <1>1, <1>2, <2>1, SeqEqual
<1>5. enablePinWidget = SubSeq(boot, 5, 6)
  <2>1. \A k \in 1..2 : enablePinWidget[k] = SubSeq(boot, 5, 6)[k]
    BY <1>1, <1>3, BootVerbs
  <2> QED
    BY <1>1, <1>3, <2>1, SeqEqual
<1>6. disablePinWidget = SubSeq(disablePinWidget, 1, 2)
  BY DisableVerbs, SubSeqFull
<1>7. <<"getFormat">> = SubSeq(boot, 7, 7)
  <2>1. boot \in Seq(Verbs) /\ \A m \in 7..7 : m \in 1..Len(boot)
    BY BootVerbs
  <2>2. \A m \in 7..7 : boot[m] \in Verbs
    BY <2>1, ElementOfSeq
  <2>3. /\ SubSeq(boot, 7, 7) \in Seq(Verbs) /\ Len(SubSeq(boot, 7, 7)) = 1
        /\ \A k \in 1..1 : SubSeq(boot, 7, 7)[k] = boot[7 + k - 1]
    BY <2>2, SubSeqProperties
  <2>4. <<"getFormat">> \in Seq(Verbs) /\ Len(<<"getFormat">>) = 1
    BY DEF Verbs
  <2>5. \A k \in 1..1 : <<"getFormat">>[k] = SubSeq(boot, 7, 7)[k]
    BY <2>3, BootVerbs
  <2> QED
    BY <2>3, <2>4, <2>5, SeqEqual
<1> QED
  BY <1>4, <1>5, <1>6, <1>7

(* A later call starts at the place its function begins.                   *)
LEMMA CallKeeps ==
  ASSUME IInv, Call
  PROVE  IInv'
<1>1. /\ UNCHANGED <<db, value, flight, history, codecVars>> /\ calls \in Nat
      /\ calls' = calls + 1 /\ outputOK' \in {outputOK, "none"}
  BY DEF IInv, Good, Ranges, Call
<1>2. calls' > 0
  BY <1>1
<1>3. Good'
  <2>1. Ranges' /\ Codec'
    BY <1>1 DEF IInv, Good, Ranges, Codec, Collected, history, codecVars
  <2>2. Link'
    BY <1>1, <1>2 DEF IInv, Good, Link, codecVars, VRef
  <2>3. OutputSettled'
    BY <1>1 DEF IInv, Good, OutputSettled, Settled, Playing, history, codecVars
  <2> QED
    BY <2>1, <2>2, <2>3 DEF Good
<1>4. CASE todo' = setOutputNode /\ outputOK' = "none"
  <2>1. At(boot, 2, 4)'
    BY <1>2, <1>4, Parts, BootVerbs DEF At, Place, Shape, Before, OutputWrites, PinWrites
  <2> QED
    BY <1>3, <2>1 DEF IInv
<1>5. CASE todo' = enablePinWidget
  <2>1. At(boot, 5, 6)'
    BY <1>2, <1>5, Parts, BootVerbs DEF At, Place, Shape, Before, OutputWrites, PinWrites
  <2> QED
    BY <1>3, <2>1 DEF IInv
<1>6. CASE todo' = disablePinWidget
  <2>1. At(disablePinWidget, 1, 2)'
    BY <1>2, <1>6, Parts, DisableVerbs DEF At, Place, Shape, Before, OutputWrites, PinWrites
  <2> QED
    BY <1>3, <2>1 DEF IInv
<1>7. CASE todo' = <<"getFormat">>
  <2>1. At(boot, 7, 7)'
    BY <1>2, <1>7, Parts, BootVerbs DEF At, Place, Shape, Before, OutputWrites, PinWrites
  <2> QED
    BY <1>3, <2>1 DEF IInv
<1> QED
  BY <1>4, <1>5, <1>6, <1>7 DEF Call

(* efi_init starts at its first verb with the amplifiers muted.            *)
LEMMA InitHolds ==
  ASSUME Init
  PROVE  IInv
<1>1. db \in Databases
  <2>1. ({0, InputStep, NoGain} \cup {Steps[n] : n \in Nodes}) \subseteq 0..127
    BY StepsAssumption DEF NoGain
  <2>2. PICK gain \in [{"mixer", "pin"} -> {0, InputStep, NoGain} \cup
                                           {Steps[n] : n \in Nodes}],
             valid \in SUBSET {"mixer", "pin"}, c, p, h \in BOOLEAN :
               db = [converter |-> c, pin |-> p, headphone |-> h,
                     valid |-> valid, gain |-> gain]
    BY DEF Init
  <2>3. gain \in [{"mixer", "pin"} -> 0..127]
    BY <2>1
  <2> QED
    BY <2>2, <2>3 DEF Databases
<1>2. Ranges
  <2>1. Collected(db)
    BY DEF Init
  <2> QED
    BY <1>1, <2>1 DEF Init, Ranges
<1>3. Codec
  BY PinAssumption DEF Init, Codec, Byte, Muted
<1>4. flight = <<>> /\ Len(flight) = 0 /\ flight \in Seq(SafeVerbs)
  BY EmptySeq DEF Init
<1>5. Good
  BY <1>2, <1>3, <1>4 DEF Init, Good, Link, OutputSettled
<1>6. boot = SubSeq(boot, 1, 12)
  BY BootVerbs, SubSeqFull
<1>7. At(boot, 1, 12)
  BY <1>6, BootVerbs DEF Init, At, Place, Shape, Before, OpenTo, OutputWrites, PinWrites
<1> QED
  BY <1>5, <1>7 DEF IInv

(* Every step keeps the invariant.                                         *)
LEMMA NextKeeps ==
  ASSUME IInv, [Next]_vars
  PROVE  IInv'
<1>1. PICK s \in {boot, disablePinWidget} :
        \E i \in 1..13, j \in 2..12 : At(s, i, j)
  BY DEF IInv
<1>2. PICK i \in 1..13, j \in 2..12 : At(s, i, j)
  BY <1>1
<1>3. Good
  BY DEF IInv
<1>4. CASE Call
  BY <1>4, CallKeeps
<1>5. CASE UNCHANGED vars
  <2>1. /\ UNCHANGED <<todo, calls, db, value, outputOK, flight, answered, outputAlone,
                       pinAlone, stream, format, control, amps, codecVars>>
    BY <1>5 DEF vars, callVars, history, codecVars
  <2>2. Good'
    BY <1>3, <2>1 DEF Good, Ranges, Codec, Link, OutputSettled, Settled, Playing,
       Collected, VRef
  <2>3. Place(s, i, j)' /\ (Before(s[i]) => Before(s[i])')
    BY <1>2, <2>1 DEF At, Place, Shape, Before, Step
  <2>4. OpenTo(i) => OpenTo(i)'
    BY <2>1, StaysOpen
  <2>5. At(s, i, j)'
    BY <1>2, <2>1, <2>3, <2>4 DEF At
  <2> QED
    BY <2>2, <2>5 DEF IInv
<1>6. ASSUME ~Call, ~UNCHANGED vars
      PROVE  Good' /\ \E m \in 1..13 : At(s, m, j)'
  <2>1. CASE GetFormat
    BY <1>2, <1>3, <2>1, GetFormatKeeps, NotAConverterKeeps DEF GetFormat
  <2>2. CASE SetFormat
    BY <1>2, <1>3, <2>2, SetFormatKeeps, NotAConverterKeeps DEF SetFormat
  <2>3. CASE GetPin
    BY <1>2, <1>3, <2>3, GetPinKeeps, NotAPinKeeps
  <2>4. CASE Settle
    BY <1>2, <1>3, <2>4, SettleKeeps
  <2> QED
    BY <1>2, <1>3, <1>6, <2>1, <2>2, <2>3, <2>4, GetIDKeeps, GetCapKeeps,
       SetStreamKeeps, SetVolumeKeeps, EnablePinKeeps, DisablePinKeeps, UnmutesKeep
       DEF Next, Finished
<1> QED
  BY <1>4, <1>5, <1>6 DEF IInv

(* The invariant holds in every reachable state.                           *)
THEOREM Invariance == Spec => []IInv
<1>1. Init => IInv
  BY InitHolds
<1>2. IInv /\ [Next]_vars => IInv'
  BY NextKeeps
<1> QED
  BY <1>1, <1>2, PTL DEF Spec

(* If setOutputNode began with nothing in flight and returned true, the    *)
(* converter takes the stream at its 0 dB step, whatever later calls do to *)
(* the pin, and whatever they lose or get too late.                        *)
THEOREM ConverterPlaying == Spec => []OutputOKTrue
<1>1. IInv => OutputOKTrue
  BY DEF IInv, Good, OutputSettled, Settled, OutputOKTrue
<1> QED
  BY <1>1, Invariance, PTL

(* With nothing left to do in efi_init, its last place is reached.         *)
LEMMA Arrived ==
  ASSUME IInv, Booting, todo = <<>>, answered
  PROVE  OpenTo(13)
<1>1. PICK s \in {boot, disablePinWidget} :
        \E i \in 1..13, j \in 2..12 : At(s, i, j)
  BY DEF IInv
<1>2. PICK i \in 1..13, j \in 2..12 : At(s, i, j)
  BY <1>1
<1>3. s = boot /\ j = 12 /\ OpenTo(i) /\ SubSeq(boot, i, 12) = <<>>
  BY <1>2 DEF At, Place, Shape, Booting
<1>4. ASSUME i \in 1..12
      PROVE  SubSeq(boot, i, 12) # <<>>
  <2>1. boot \in Seq(Verbs) /\ i \in 1..Len(boot) /\ 12 \in i..Len(boot)
    BY <1>4, BootVerbs
  <2> QED
    BY <2>1, PartHead
<1> QED
  BY <1>3, <1>4

(* If every verb of efi_init is answered, the way from the stream to the   *)
(* pin is open when it comes to its console.                               *)
THEOREM BootOpensPath == Spec => []PathOpen
<1>1. ASSUME IInv, Booting, todo = <<>>, answered
      PROVE  /\ stream = StreamNumber
             /\ db.converter => format = Format
             /\ \A a \in Amplifiers : amps[a] < Muted
             /\ \A n \in {"converter"} \cup db.valid : amps[n] = Steps[n]
             /\ db.pin => OutputEnabled(control) /\ ~InputEnabled(control)
  <2>1. OpenTo(13)
    BY <1>1, Arrived
  <2>2. /\ db \in Databases /\ Collected(db)
        /\ \A n \in {"mixer", "pin"} : db.gain[n] \in 0..127
    BY <1>1 DEF IInv, Good, Ranges, Databases
  <2>3. \A n \in db.valid : n \in {"mixer", "pin"} /\ amps[n] = Steps[n]
    BY <2>1, <2>2 DEF OpenTo, Collected, Databases
  <2>4. amps["converter"] = Steps["converter"] /\ Steps["converter"] < Muted
    BY <2>1, Gains DEF OpenTo, Nodes
  <2>5. \A a \in Amplifiers : amps[a] < Muted
    BY <2>1, <2>2, <2>4, Gains DEF OpenTo, Amplifiers, Nodes
  <2> QED
    BY <2>1, <2>3, <2>4, <2>5 DEF OpenTo, PinOpen
<1>2. IInv => PathOpen
  BY <1>1 DEF PathOpen
<1> QED
  BY <1>2, Invariance, PTL

(* In an exchange the codec executes the verb that is sent or the oldest   *)
(* one in flight.                                                          *)
LEMMA ExchangeExecutes ==
  ASSUME Codec, Link, NEW v \in SafeVerbs, NEW r, Exchange(v, r), control' # control
  PROVE  /\ ~InputEnabled(control')
         /\ \/ flight = <<>> /\ control' = v.operand
            \/ flight # <<>> /\ control' = flight[1].operand
<1>1. CASE flight = <<>> /\ Executed(v)
  BY <1>1, Executions
<1>2. CASE flight # <<>> /\ Executed(Head(flight))
  <2>1. flight[1] \in SafeVerbs /\ Executed(flight[1])
    BY <1>2, Oldest DEF Link
  <2> QED
    BY <1>2, <2>1, Executions
<1> QED
  BY <1>1, <1>2 DEF Exchange, codecVars

(* A verb that is sent with an operand of a byte and no pin write.         *)
LEMMA JustExchanges ==
  ASSUME NEW verb \in Verbs \ PinWrites, NEW operand \in 0..127, Just(verb, operand)
  PROVE  \E v \in SafeVerbs, r \in Responses : Exchange(v, r) /\ v.name \notin PinWrites
<1>1. PICK r \in Responses : Exchange(Verb(verb, operand), r)
  BY DEF Just, Sends
<1>2. operand \in Byte /\ operand < Muted
  BY Gains
<1>3. Harmless(Verb(verb, operand))
  BY <1>2 DEF Harmless, Verb
<1>4. Verb(verb, operand) \in SafeVerbs /\ Verb(verb, operand).name = verb
  BY <1>2, <1>3, SafeVerb
<1> QED
  BY <1>1, <1>4

(* Every other step that may change the pin's control is an exchange of    *)
(* another verb.                                                           *)
LEMMA OtherExchanges ==
  ASSUME Good, Next, control' # control, ~EnablePin, ~DisablePin, ~Settle
  PROVE  \E v \in SafeVerbs, r \in Responses : Exchange(v, r) /\ v.name \notin PinWrites
<1>1. value \in Nat /\ \A n \in {"mixer", "pin"} : Gain(n) \in 0..127
  BY DEF Good, Ranges, Databases, Gain
<1>2. /\ 0 \in 0..127 /\ Format \in 0..127
      /\ {"getID", "getFormat", "setFormat", "unmuteMixerIn", "unmuteMixer",
          "unmutePinIn", "unmutePin"} \subseteq Verbs \ PinWrites
      /\ {"getCap", "getPin", "setStream", "setVolume"} \cap PinWrites = {}
  BY DEF Format, Verbs, PinWrites
<1>3. CASE GetID
  BY <1>2, <1>3, JustExchanges DEF GetID
<1>4. CASE GetFormat
  BY <1>2, <1>4, JustExchanges DEF GetFormat, NotAConverter, codecVars
<1>5. CASE SetFormat
  BY <1>2, <1>5, JustExchanges DEF SetFormat, NotAConverter, codecVars
<1>6. CASE UnmuteMixer \/ UnmutePin
  BY <1>1, <1>2, <1>6, JustExchanges DEF UnmuteMixer, UnmutePin
<1>7. CASE GetCap
  BY <1>1, <1>2, <1>7, OutputVerbs DEF GetCap, Sends
<1>8. CASE SetStream
  BY <1>1, <1>2, <1>8, OutputVerbs DEF SetStream, Sends
<1>9. CASE SetVolume
  BY <1>1, <1>2, <1>9, OutputVerbs DEF SetVolume, Sends
<1>10. CASE GetPin
  BY <1>1, <1>2, <1>10, OutputVerbs DEF GetPin, NotAPin, Sends, codecVars
<1>11. CASE Call \/ Finished
  BY <1>11 DEF Call, Finished, vars, codecVars
<1> QED
  BY <1>3, <1>4, <1>5, <1>6, <1>7, <1>8, <1>9, <1>10, <1>11 DEF Next

(* No write to the pin's control leaves its input enabled, and none of a   *)
(* call that began with nothing in flight changes its voltage reference:   *)
(* such a call writes what it read, or nothing, and its write is the       *)
(* oldest verb in flight as long as the codec has not executed it.         *)
THEOREM PinWritesKeepVRef == Spec => PinKeepsVRef
<1>1. ASSUME IInv, Next, control' # control
      PROVE  ~InputEnabled(control') /\ (WritesAlone => VRef(control') = VRef(control))
  <2>1. PICK s \in {boot, disablePinWidget} :
          \E i \in 1..13, j \in 2..12 : At(s, i, j)
    BY <1>1 DEF IInv
  <2>2. PICK i \in 1..13, j \in 2..12 : At(s, i, j)
    BY <2>1
  <2>3. Codec /\ Link /\ value \in Nat
    BY <1>1 DEF IInv, Good, Ranges
  <2>4. ASSUME NEW v \in SafeVerbs, NEW r, Exchange(v, r),
               pinAlone /\ flight = <<>> /\ control' = v.operand
                 => VRef(v.operand) = VRef(control)
        PROVE  ~InputEnabled(control') /\ (WritesAlone => VRef(control') = VRef(control))
    <3>1. /\ ~InputEnabled(control')
          /\ \/ flight = <<>> /\ control' = v.operand
             \/ flight # <<>> /\ control' = flight[1].operand
      BY <1>1, <2>3, <2>4, ExchangeExecutes
    <3>2. flight # <<>> => Head(flight) = flight[1]
      BY <2>3, Oldest DEF Link
    <3> QED
      BY <2>3, <2>4, <3>1, <3>2 DEF WritesAlone, Link
  <2>5. CASE Settle
    <3>1. flight # <<>> /\ Head(flight) = flight[1] /\ flight[1] \in SafeVerbs
      BY <2>3, <2>5, Oldest DEF Settle, Link
    <3>2. Executed(flight[1])
      BY <1>1, <2>5, <3>1 DEF Settle, codecVars
    <3>3. control' = flight[1].operand /\ ~InputEnabled(control')
      BY <1>1, <2>3, <3>1, <3>2, Executions
    <3> QED
      BY <2>3, <3>1, <3>3 DEF WritesAlone, Link
  <2>6. CASE EnablePin
    <3>1. PICK r \in Responses : Sends("enablePin", Enabled(value), r)
      BY <2>6 DEF EnablePin, Just
    <3>2. Does("enablePin") /\ Exchange(Verb("enablePin", Enabled(value)), r)
      BY <3>1 DEF Sends
    <3>3. pinAlone => value = control
      BY <2>2, <3>2, Fetched DEF Before, PinWrites
    <3>4. /\ VRef(Enabled(value)) = VRef(value) /\ Enabled(value) \in Byte
          /\ ~InputEnabled(Enabled(value))
      BY <2>3, EnabledByte, Zenon
    <3>5. Harmless(Verb("enablePin", Enabled(value)))
      BY <3>4, Targets DEF Harmless, Verb
    <3>6. /\ Verb("enablePin", Enabled(value)) \in SafeVerbs
          /\ Verb("enablePin", Enabled(value)).operand = Enabled(value)
      BY <3>4, <3>5, SafeVerb DEF Verbs
    <3> QED
      BY <2>4, <3>2, <3>3, <3>4, <3>6
  <2>7. CASE DisablePin
    <3>1. PICK r \in Responses : Sends("disablePin", VRef(value), r)
      BY <2>7 DEF DisablePin, Just
    <3>2. Does("disablePin") /\ Exchange(Verb("disablePin", VRef(value)), r)
      BY <3>1 DEF Sends
    <3>3. pinAlone => value = control
      BY <2>2, <3>2, Fetched DEF Before, PinWrites
    <3>4. /\ VRef(VRef(value)) = VRef(value) /\ VRef(value) \in Byte
          /\ ~InputEnabled(VRef(value))
      BY <2>3, DisabledByte, Zenon
    <3>5. Harmless(Verb("disablePin", VRef(value)))
      BY <3>4, Targets DEF Harmless, Verb
    <3>6. /\ Verb("disablePin", VRef(value)) \in SafeVerbs
          /\ Verb("disablePin", VRef(value)).operand = VRef(value)
      BY <3>4, <3>5, SafeVerb DEF Verbs
    <3> QED
      BY <2>4, <3>2, <3>3, <3>4, <3>6
  <2>8. ASSUME ~EnablePin, ~DisablePin, ~Settle
        PROVE  ~InputEnabled(control') /\ (WritesAlone => VRef(control') = VRef(control))
    <3>1. PICK v \in SafeVerbs, r \in Responses : Exchange(v, r) /\ v.name \notin PinWrites
      BY <1>1, <2>8, OtherExchanges DEF IInv
    <3>2. flight # <<>>
      BY <1>1, <3>1 DEF Exchange, Executed, codecVars
    <3> QED
      BY <2>4, <3>1, <3>2
  <2> QED
    BY <2>5, <2>6, <2>7, <2>8
<1>2. IInv /\ [Next]_vars
        => [control' # control =>
              /\ ~InputEnabled(control')
              /\ WritesAlone => VRef(control') = VRef(control)]_vars
  BY <1>1
<1> QED
  BY <1>2, Invariance, PTL DEF Spec, PinKeepsVRef
-----------------------------------------------------------------------------
(***************************************************************************)
(* StreamFormat, the word setIOWidgetFormat sends: for every set of words  *)
(* a codec may return and every bound on the channels asked for, what was  *)
(* set is got back (RoundTrip), a rate is named only for a word that means *)
(* it (NamedRateExact), and OutputPath's Format is the word of the         *)
(* arguments efi_init gives to set.                                        *)
(***************************************************************************)
(* The word holds these fields, and its reserved bits are clear.           *)
HasFields(word, base, multiplier, divisor, depth, channels) ==
  /\ word \in PcmWords
  /\ BaseOf(word) = base
  /\ MultiplierOf(word) = multiplier
  /\ DivisorOf(word) = divisor
  /\ ReservedOf(word) = 0
  /\ DepthOf(word) = depth
  /\ ChannelsOf(word) = channels

(* Words in numbers.                                                       *)
LEMMA WordRanges == 0 \in Word16 /\ PcmWords \subseteq Word16 /\ Word16 \subseteq Nat
<1>1. ASSUME NEW word \in PcmWords PROVE word \in Word16
  BY DEF PcmWords, Word16
<1>2. 0 \in Word16
  BY DEF Word16
<1>3. Word16 \subseteq Nat
  BY DEF Word16
<1> QED
  BY <1>1, <1>2, <1>3

(* A word put together from fields that are in range gives them back.      *)
LEMMA FieldsOfWord ==
  ASSUME NEW base \in 0..1, NEW multiplier \in 0..7, NEW divisor \in 0..7,
         NEW depth \in 0..7, NEW channels \in 0..15,
         NEW word, word = Word(base, multiplier, divisor, depth, channels)
  PROVE  HasFields(word, base, multiplier, divisor, depth, channels)
<1>1. word \in PcmWords
  BY DEF Word, PcmWords
<1>2. word \div 16384 = base
  BY DEF Word
<1>3. word \div 2048 = 8 * base + multiplier
  BY DEF Word
<1>4. word \div 256 = 64 * base + 8 * multiplier + divisor
  BY DEF Word
<1>5. word \div 128 = 2 * (64 * base + 8 * multiplier + divisor)
  BY DEF Word
<1>6. word \div 16 = 8 * (128 * base + 16 * multiplier + 2 * divisor) + depth
  BY DEF Word
<1>7. word \div 1 = 16 * (1024 * base + 128 * multiplier + 16 * divisor + depth)
                      + channels
  BY DEF Word
<1>8. BaseOf(word) = base /\ MultiplierOf(word) = multiplier
  BY <1>2, <1>3 DEF BaseOf, MultiplierOf, Field
<1>9. DivisorOf(word) = divisor /\ ReservedOf(word) = 0
  BY <1>4, <1>5 DEF DivisorOf, ReservedOf, Field
<1>10. DepthOf(word) = depth /\ ChannelsOf(word) = channels
  BY <1>6, <1>7 DEF DepthOf, ChannelsOf, Field
<1> QED
  BY <1>1, <1>8, <1>9, <1>10 DEF HasFields

(* The fields set puts together are in range.                              *)
LEMMA FieldsInRange ==
  ASSUME NEW sr \in SampleRates, NEW bits \in BitDepths
  PROVE  /\ RateFields(sr).base \in 0..1
         /\ RateFields(sr).multiplier \in 0..7
         /\ RateFields(sr).divisor \in 0..7
         /\ DepthField(bits) \in 0..7
<1>1. /\ RateFields(sr).base \in 0..1
      /\ RateFields(sr).multiplier \in 0..7
      /\ RateFields(sr).divisor \in 0..7
  BY DEF SampleRates, RateFields
<1>2. DepthField(bits) \in 0..7
  BY DEF BitDepths, DepthField
<1> QED
  BY <1>1, <1>2

(* The word of arguments that set accepts, taken apart.                    *)
LEMMA FormatFields ==
  ASSUME NEW sr, NEW bits, NEW channels, Accepts(sr, bits, channels),
         NEW word, word = FormatOf(sr, bits, channels)
  PROVE  /\ word \in PcmWords
         /\ BaseOf(word) = RateFields(sr).base
         /\ MultiplierOf(word) = RateFields(sr).multiplier
         /\ DivisorOf(word) = RateFields(sr).divisor
         /\ ReservedOf(word) = 0
         /\ DepthOf(word) = DepthField(bits)
         /\ ChannelsOf(word) = channels - 1
<1>1. /\ RateFields(sr).base \in 0..1
      /\ RateFields(sr).multiplier \in 0..7
      /\ RateFields(sr).divisor \in 0..7
      /\ DepthField(bits) \in 0..7
  BY FieldsInRange DEF Accepts
<1>2. channels - 1 \in 0..15
  BY DEF Accepts
<1>3. word = Word(RateFields(sr).base, RateFields(sr).multiplier,
                  RateFields(sr).divisor, DepthField(bits), channels - 1)
  BY DEF FormatOf
<1>4. HasFields(word, RateFields(sr).base, RateFields(sr).multiplier,
                RateFields(sr).divisor, DepthField(bits), channels - 1)
  BY <1>1, <1>2, <1>3, FieldsOfWord, Zenon
<1> QED
  BY <1>4 DEF HasFields

(* What set was given is what the getters return.                          *)
LEMMA SetThenGet ==
  ASSUME NEW sr, NEW bits, NEW channels, Accepts(sr, bits, channels),
         NEW word, word = FormatOf(sr, bits, channels)
  PROVE  /\ getBitDepth(word) = bits
         /\ getChannels(word) = channels
         /\ sr # "R22050" => getSampleRate(word) = sr
<1>1. getBitDepth(word) = bits
  <2>1. DepthOf(word) = DepthField(bits)
    BY FormatFields
  <2>2. bits \in {"B8", "B16", "B20", "B24", "B32"}
    BY DEF Accepts, BitDepths
  <2> QED
    BY <2>1, <2>2 DEF getBitDepth, DepthField
<1>2. getChannels(word) = channels
  <2>1. ChannelsOf(word) = channels - 1
    BY FormatFields
  <2>2. channels \in 1..16
    BY DEF Accepts
  <2> QED
    BY <2>1, <2>2 DEF getChannels
<1>3. ASSUME sr # "R22050" PROVE getSampleRate(word) = sr
  <2>1. /\ BaseOf(word) = RateFields(sr).base
        /\ MultiplierOf(word) = RateFields(sr).multiplier
        /\ DivisorOf(word) = RateFields(sr).divisor
    BY FormatFields
  <2>2. sr \in {"R16000", "R32000", "R44100", "R48000", "R96000", "R192000"}
    BY <1>3 DEF Accepts, SampleRates
  <2>3. CASE sr = "R16000"
    <3>1. RateHz(word) = 16000
      BY <2>1, <2>3 DEF RateHz, BaseHz, RateFields
    <3> QED
      BY <2>3, <3>1 DEF getSampleRate
  <2>4. CASE sr = "R32000"
    <3>1. RateHz(word) = 32000
      BY <2>1, <2>4 DEF RateHz, BaseHz, RateFields
    <3> QED
      BY <2>4, <3>1 DEF getSampleRate
  <2>5. CASE sr = "R44100"
    <3>1. RateHz(word) = 44100
      BY <2>1, <2>5 DEF RateHz, BaseHz, RateFields
    <3> QED
      BY <2>5, <3>1 DEF getSampleRate
  <2>6. CASE sr = "R48000"
    <3>1. RateHz(word) = 48000
      BY <2>1, <2>6 DEF RateHz, BaseHz, RateFields
    <3> QED
      BY <2>6, <3>1 DEF getSampleRate
  <2>7. CASE sr = "R96000"
    <3>1. RateHz(word) = 96000
      BY <2>1, <2>7 DEF RateHz, BaseHz, RateFields
    <3> QED
      BY <2>7, <3>1 DEF getSampleRate
  <2>8. CASE sr = "R192000"
    <3>1. RateHz(word) = 192000
      BY <2>1, <2>8 DEF RateHz, BaseHz, RateFields
    <3> QED
      BY <2>8, <3>1 DEF getSampleRate
  <2> QED
    BY <2>2, <2>3, <2>4, <2>5, <2>6, <2>7, <2>8
<1> QED
  BY <1>1, <1>2, <1>3

(* A word is 0, came from a codec, or is the word of the arguments asked   *)
(* for last.                                                               *)
FormatInv ==
  \/ arguments = NotAsked /\ m_value = 0
  \/ arguments = FromCodec /\ m_value \in Words
  \/ /\ Accepts(arguments.sr, arguments.bits, arguments.channels)
     /\ m_value = FormatOf(arguments.sr, arguments.bits, arguments.channels)

(* FormatInv is an inductive invariant.                                    *)
LEMMA FormatInvariance == FormatSpec => []FormatInv
<1>1. FormatInit => FormatInv
  BY DEF FormatInit, FormatInv
<1>2. FormatInv /\ [FormatNext]_formatVars => FormatInv'
  <2> SUFFICES ASSUME FormatInv, [FormatNext]_formatVars PROVE FormatInv'
    OBVIOUS
  <2>1. CASE UNCHANGED formatVars
    BY <2>1 DEF FormatInv, formatVars
  <2>2. CASE FormatNext
    <3>1. CASE Get
      BY <3>1, <2>1 DEF Get
    <3>2. ASSUME NEW sr, NEW bits, NEW channels, Set(sr, bits, channels)
          PROVE  FormatInv'
      <4>1. CASE Accepts(sr, bits, channels)
        <5>1. /\ m_value' = FormatOf(sr, bits, channels)
              /\ arguments' = [sr |-> sr, bits |-> bits, channels |-> channels]
          BY <3>2, <4>1 DEF Set
        <5>2. /\ arguments'.sr = sr
              /\ arguments'.bits = bits
              /\ arguments'.channels = channels
          BY <5>1
        <5> QED
          BY <4>1, <5>1, <5>2 DEF FormatInv
      <4>2. CASE ~Accepts(sr, bits, channels)
        BY <3>2, <4>2, <2>1 DEF Set
      <4> QED
        BY <4>1, <4>2
    <3> QED
      BY <2>2, <3>1, <3>2 DEF FormatNext
  <2> QED
    BY <2>1, <2>2
<1> QED
  BY <1>1, <1>2, PTL DEF FormatSpec

(* Of the format word: what was set is in a word and what is got back.     *)
LEMMA SetWord ==
  ASSUME FormatInv, IsSet
  PROVE  /\ Accepts(arguments.sr, arguments.bits, arguments.channels)
         /\ m_value = FormatOf(arguments.sr, arguments.bits, arguments.channels)
  BY DEF FormatInv, IsSet

(* What was set is what is got back, the rate of 22050 Hz excepted, for    *)
(* every rate, depth and number of channels that set accepts.              *)
THEOREM FormatRoundTrips == FormatSpec => []RoundTrip
<1>1. FormatInv => RoundTrip
  BY SetWord, SetThenGet DEF RoundTrip
<1> QED
  BY FormatInvariance, <1>1, PTL

(* The word fits the 16 bits that are sent to the converter.               *)
THEOREM FormatTypeCorrect == FormatSpec => []TypeOK
<1>1. FormatInv => TypeOK
  <2> SUFFICES ASSUME FormatInv PROVE TypeOK
    OBVIOUS
  <2>1. CASE IsSet
    <3>1. m_value \in PcmWords /\ ReservedOf(m_value) = 0
      <4>1. /\ Accepts(arguments.sr, arguments.bits, arguments.channels)
            /\ m_value = FormatOf(arguments.sr, arguments.bits, arguments.channels)
        BY <2>1, SetWord
      <4> QED
        BY <4>1, FormatFields, Zenon
    <3>2. m_value \in Word16
      BY <3>1, WordRanges
    <3> QED
      BY <3>1, <3>2 DEF TypeOK
  <2>2. CASE ~IsSet
    <3>1. m_value = 0 \/ m_value \in Words
      BY <2>2 DEF FormatInv, IsSet, Accepts, NotAsked, FromCodec,
                  SampleRates, BitDepths
    <3>2. m_value \in Word16
      BY <3>1, WordRanges, WordsAssumption
    <3> QED
      BY <2>2, <3>2 DEF TypeOK
  <2> QED
    BY <2>1, <2>2
<1> QED
  BY FormatInvariance, <1>1, PTL

(* For each base rate and divisor: a rate that has a name is not a rounded *)
(* one.                                                                    *)
LEMMA NamedIsWhole ==
  ASSUME NEW base \in {48000, 44100}, NEW multiplier \in 1..8, NEW divisor \in 1..8,
         NEW hz \in {16000, 32000, 44100, 48000, 96000, 192000},
         (base * multiplier) \div divisor = hz
  PROVE  hz * divisor = base * multiplier
<1>1. multiplier \in {1, 2, 3, 4, 5, 6, 7, 8} /\ divisor \in {1, 2, 3, 4, 5, 6, 7, 8}
  OBVIOUS
<1>2. CASE divisor = 1
  BY <1>1, <1>2
<1>3. CASE divisor = 2
  BY <1>1, <1>3
<1>4. CASE divisor = 3
  BY <1>1, <1>4
<1>5. CASE divisor = 4
  BY <1>1, <1>5
<1>6. CASE divisor = 5
  BY <1>1, <1>6
<1>7. CASE divisor = 6
  BY <1>1, <1>7
<1>8. CASE divisor = 7
  BY <1>1, <1>8
<1>9. CASE divisor = 8
  BY <1>1, <1>9
<1> QED
  BY <1>1, <1>2, <1>3, <1>4, <1>5, <1>6, <1>7, <1>8, <1>9

(* A field is in the range of its size.                                    *)
LEMMA FieldRanges ==
  ASSUME NEW word \in Word16
  PROVE  /\ Field(word, 16384, 2) \in {0, 1}
         /\ Field(word, 2048, 8) \in 0..7
         /\ Field(word, 256, 8) \in 0..7
<1>1. word \in Nat
  BY WordRanges
<1> QED
  BY <1>1 DEF Field

(* Whatever word a codec returns, a rate is named only if the word means    *)
(* exactly that rate: 44.1 kHz multiplied and divided never rounds down to  *)
(* a rate that has a name.                                                  *)
THEOREM NamedRatesExact == FormatSpec => []NamedRateExact
<1>1. TypeOK => NamedRateExact
  <2> SUFFICES ASSUME m_value \in Word16, getSampleRate(m_value) # "Invalid"
               PROVE  Hertz[getSampleRate(m_value)] * (DivisorOf(m_value) + 1)
                        = BaseHz(m_value) * (MultiplierOf(m_value) + 1)
    <3>1. m_value \in Word16 => BaseOf(m_value) \in {0, 1}
      BY FieldRanges DEF BaseOf
    <3> QED
      BY <3>1 DEF TypeOK, NamedRateExact, BaseHz, BaseOf, MultiplierOf, DivisorOf, Field
  <2>1. /\ BaseHz(m_value) \in {48000, 44100}
        /\ MultiplierOf(m_value) + 1 \in 1..8
        /\ DivisorOf(m_value) + 1 \in 1..8
    BY FieldRanges DEF BaseHz, MultiplierOf, DivisorOf
  <2>2. /\ RateHz(m_value) \in {16000, 32000, 44100, 48000, 96000, 192000}
        /\ Hertz[getSampleRate(m_value)] = RateHz(m_value)
    BY DEF getSampleRate, Hertz
  <2>3. RateHz(m_value) * (DivisorOf(m_value) + 1)
          = BaseHz(m_value) * (MultiplierOf(m_value) + 1)
    BY <2>1, <2>2, NamedIsWhole DEF RateHz
  <2> QED
    BY <2>2, <2>3
<1> QED
  BY FormatTypeCorrect, <1>1, PTL

(* The word setIOWidgetFormat writes to the converter, OutputPath's Format, *)
(* is the one set makes of the arguments efi_init gives it, and what the   *)
(* getters make of it are those arguments.                                 *)
THEOREM ConverterFormat ==
  /\ Format = FormatOf("R48000", "B16", 2)
  /\ getSampleRate(Format) = "R48000"
  /\ getBitDepth(Format) = "B16"
  /\ getChannels(Format) = 2
<1>1. Accepts("R48000", "B16", 2)
  BY DEF Accepts, SampleRates, BitDepths
<1>2. Format = FormatOf("R48000", "B16", 2)
  BY DEF Format, FormatOf, RateFields, DepthField, Word
<1> QED
  BY <1>1, <1>2, SetThenGet
=============================================================================
