------------------------ MODULE StreamControlProofs ------------------------
(***************************************************************************)
(* Proofs about StreamControl, for every number of streams, whether or not *)
(* the delay loop covers the controller's reset, and any number of calls.  *)
(*                                                                         *)
(* The boot sequence is 23 accesses, and playSound is its last seven: where *)
(* the driver is, is one number. The inductive invariant says what holds   *)
(* after n accesses; the calls after the boot sequence, which play or stop, *)
(* keep what holds at its end.                                             *)
(***************************************************************************)
EXTENDS StreamControl, SequenceTheorems, TLAPS

(* What is left to do after n accesses of the boot sequence.               *)
Rest(n) == SubSeq(boot, n + 1, 23)

(* The driver has made n accesses of the boot sequence; later calls are at *)
(* its end.                                                                *)
Place(n) ==
  \/ calls = 0 /\ todo = Rest(n)
  \/ /\ calls > 0 /\ n = 23
     /\ todo = stopSound \/ \E m \in 16..23 : todo = Rest(m)

(* The reset bit as written, and what the controller has made of it: the   *)
(* delay guarantees it only when it is long enough, the polling loop always *)
(* guarantees that the controller is out of reset.                         *)
LinkAt(n) ==
  /\ n \in {2, 3} <=> request = 0
  /\ n <= 1 \/ n >= 5 => link = "up"
  /\ DelayCovers /\ n = 3 => link = "down"

MembersAt(n) ==
  /\ n = 0 => audio = Unset /\ list = Unset /\ position = Unset
  /\ n > 0 => /\ audio \in {Audio, NoPages} /\ list \in {List, NoPages}
              /\ position \in {Position, NoPages}
  /\ n < 6 => inputDescriptor = Unset /\ outputDescriptor = Unset
  /\ n >= 6 => inputDescriptor = 0 /\ outputDescriptor = numIn

(* The controller is in its reset or has been.                             *)
WasReset(n) == link = "down" \/ (DelayCovers /\ n >= 3)

(* From the reset to the last access nothing runs.                         *)
QuietAt(n) ==
  WasReset(n) =>
    /\ engines = {}
    /\ \A s \in Streams : stream[s].run => s = numIn /\ n = 23

(* What is turned off stays off, with a reset or without.                  *)
EnginesAt(n) ==
  /\ n >= 7 => "interrupts" \notin engines
  /\ n >= 9 => "rirb" \notin engines

(* What is programmed stays programmed.                                    *)
ProgrammedAt(n) ==
  LET s == stream[numIn] IN
  /\ n >= 12 => s.bdl = list
  /\ n >= 13 => s.lvi = 1
  /\ n >= 14 /\ list = List => entries = Entries
  /\ n >= 15 => s.cbl = BufferLength
  /\ n >= 16 => s.fmt = 1
  /\ n >= 22 => dpl = position
  /\ n = 23 /\ calls = 0 => s.run

Facts(n) == LinkAt(n) /\ MembersAt(n) /\ QuietAt(n) /\ EnginesAt(n) /\ ProgrammedAt(n)

Typed == TypeOK /\ numIn \in InputStreams

(* The inductive invariant.                                                *)
IInv == Typed /\ \E n \in 0..23 : Place(n) /\ Facts(n)
-----------------------------------------------------------------------------
(* The sequences. *)

(* The 23 accesses of the boot sequence.                                   *)
LEMMA BootElements ==
  /\ boot[1] = "allocate" /\ boot[2] = "enterReset" /\ boot[3] = "delay"
  /\ boot[4] = "leaveReset" /\ boot[5] = "wait" /\ boot[6] = "descriptors"
  /\ boot[7] = "disableInterrupt" /\ boot[8] = "corbrp" /\ boot[9] = "rirbctl"
  /\ boot[10] = "dplOff" /\ boot[11] = "turnOff" /\ boot[12] = "bdl"
  /\ boot[13] = "lvi" /\ boot[14] = "entries" /\ boot[15] = "length"
  /\ boot[16] = "format" /\ boot[17] = "bdl" /\ boot[18] = "lvi"
  /\ boot[19] = "entries" /\ boot[20] = "length" /\ boot[21] = "format"
  /\ boot[22] = "dplbase" /\ boot[23] = "run"
  BY DEF boot, reset, turnOffCorbRirbDmapos, stopSound, playSound,
         outputStreamSetDescriptorList, outputStreamTurnOn

Accesses == {"allocate", "enterReset", "delay", "leaveReset", "wait",
             "descriptors", "disableInterrupt", "corbrp", "rirbctl", "dplOff",
             "turnOff", "bdl", "lvi", "entries", "length", "format",
             "dplbase", "run"}

(* The boot sequence is a sequence of these, 23 long.                      *)
LEMMA BootIsSequence == boot \in Seq(Accesses) /\ Len(boot) = 23
  BY DEF boot, reset, turnOffCorbRirbDmapos, stopSound, playSound,
         outputStreamSetDescriptorList, outputStreamTurnOn, Accesses

(* And so is playSound, seven long.                                        *)
LEMMA PlaySoundIsSequence == playSound \in Seq(Accesses) /\ Len(playSound) = 7
  BY DEF playSound, outputStreamSetDescriptorList, outputStreamTurnOn, Accesses

(* What a sequence that was put together ends with.                        *)
LEMMA EndOfConcat ==
  ASSUME NEW S, NEW s \in Seq(S), NEW t \in Seq(S), Len(t) > 0
  PROVE  t = SubSeq(s \o t, Len(s) + 1, Len(s) + Len(t))
<1>1. /\ Len(s) + 1 \in Len(s) + 1..Len(s) + Len(t)
      /\ Len(s) + Len(t) \in Len(s) + 1..Len(s) + Len(t)
      /\ Len(s) + 1 - Len(s) = 1 /\ Len(s) + Len(t) - Len(s) = Len(t)
  BY LenProperties
<1>2. SubSeq(s \o t, Len(s) + 1, Len(s) + Len(t)) = SubSeq(t, 1, Len(t))
  BY <1>1, SubSeqOfConcat2
<1> QED
  BY <1>2, SubSeqFull

(* playSound is what the boot sequence ends with.                          *)
LEMMA PlaySoundIsRest == playSound = Rest(16)
<1> DEFINE setUp == <<"allocate">> \o reset \o <<"disableInterrupt">>
                      \o turnOffCorbRirbDmapos \o stopSound
                      \o outputStreamSetDescriptorList \o <<"length", "format">>
<1>1. boot = setUp \o playSound
  BY DEF boot
<1>2. setUp \in Seq(Accesses) /\ Len(setUp) = 16
  BY DEF reset, turnOffCorbRirbDmapos, stopSound, outputStreamSetDescriptorList, Accesses
<1> HIDE DEF setUp
<1>3. playSound = SubSeq(setUp \o playSound, 17, 23)
  <2>1. /\ Len(playSound) > 0
        /\ Len(setUp) + 1 = 17 /\ Len(setUp) + Len(playSound) = 23
    BY <1>2, PlaySoundIsSequence
  <2>2. playSound = SubSeq(setUp \o playSound, Len(setUp) + 1, Len(setUp) + Len(playSound))
    BY <1>2, <2>1, PlaySoundIsSequence, EndOfConcat, Zenon
  <2> QED
    BY <2>1, <2>2
<1> QED
  <2>1. Rest(16) = SubSeq(boot, 17, 23)
    BY DEF Rest
  <2> QED
    BY <1>1, <1>3, <2>1

(* The driver begins at the first access.                                  *)
LEMMA RestStarts == boot = Rest(0)
  BY BootIsSequence, SubSeqFull DEF Rest

(* The list of what is left to do shrinks by one access at a time.         *)
LEMMA RestSteps ==
  ASSUME NEW n \in 0..22
  PROVE  /\ Rest(n) # <<>>
         /\ Head(Rest(n)) = boot[n + 1]
         /\ Tail(Rest(n)) = Rest(n + 1)
<1>1. n + 1 \in 1..23
  OBVIOUS
<1>2. /\ Head(Rest(n)) = boot[n + 1]
      /\ Tail(Rest(n)) = Rest(n + 1)
  BY <1>1, BootIsSequence, HeadTailOfSubSeq DEF Rest
<1>3. Len(Rest(n)) = 23 - n
  BY <1>1, BootIsSequence, SubSeqProperties DEF Rest
<1> QED
  BY <1>2, <1>3

(* After the last access nothing is left to do.                            *)
LEMMA RestEnds == Rest(23) = <<>>
  BY SubSeqEmpty DEF Rest

(* The accesses of playSound and stopSound, once booted.                   *)
PlayStop == {"turnOff", "bdl", "lvi", "entries", "length", "format", "dplbase", "run"}

(* An access of a call after the boot sequence.                            *)
Replays(n, m) == n = 23 /\ m = 23 /\ calls > 0

(* With this access the driver comes from access n to access m.            *)
Comes(access, n, m) ==
  \/ m = n + 1 /\ access = boot[m]
  \/ Replays(n, m) /\ access \in PlayStop

(* The driver makes the access it is at and comes to the next place.       *)
LEMMA DriverComes ==
  ASSUME NEW n \in 0..23, Place(n), NEW access, Does(access)
  PROVE  \E m \in 0..23 : Comes(access, n, m) /\ Place(m)'
<1>1. CASE calls = 0 /\ todo = Rest(n)
  <2>1. n \in 0..22
    BY <1>1, RestEnds DEF Does
  <2>2. /\ n + 1 \in 0..23
        /\ access = boot[n + 1]
        /\ todo' = Rest(n + 1) /\ calls' = 0
    <3>1. Head(Rest(n)) = access /\ todo' = Tail(Rest(n)) /\ calls' = 0
      BY <1>1 DEF Does
    <3>2. Head(Rest(n)) = boot[n + 1] /\ Tail(Rest(n)) = Rest(n + 1)
      BY <2>1, RestSteps
    <3> QED
      BY <2>1, <3>1, <3>2
  <2> QED
    BY <2>2 DEF Comes, Replays, Place, Rest
<1>2. CASE n = 23 /\ calls > 0 /\ todo = stopSound
  <2>1. access = "turnOff" /\ todo' = <<>> /\ calls' = calls
    BY <1>2 DEF Does, stopSound
  <2> QED
    BY <1>2, <2>1, RestEnds DEF Comes, Replays, Place, Rest, PlayStop
<1>3. ASSUME NEW m \in 16..23, n = 23, calls > 0, todo = Rest(m)
      PROVE  Comes(access, 23, 23) /\ Place(23)'
  <2>1. m \in 0..22 /\ m >= 16
    BY <1>3, RestEnds DEF Does
  <2>2. /\ m + 1 \in 16..23 /\ m + 1 >= 17
        /\ access = boot[m + 1]
        /\ todo' = Rest(m + 1) /\ calls' = calls
    <3>1. Head(Rest(m)) = access /\ todo' = Tail(Rest(m)) /\ calls' = calls
      BY <1>3 DEF Does
    <3>2. Head(Rest(m)) = boot[m + 1] /\ Tail(Rest(m)) = Rest(m + 1)
      BY <2>1, RestSteps
    <3> QED
      BY <2>1, <3>1, <3>2
  <2>3. access \in PlayStop
    BY <2>2, BootElements DEF PlayStop
  <2>4. \E k \in 16..23 : todo' = Rest(k)
    BY <2>2
  <2> QED
    BY <1>3, <2>2, <2>3, <2>4 DEF Comes, Replays, Place, Rest
<1> QED
  BY <1>1, <1>2, <1>3 DEF Place

(* Where in its sequences the driver makes which access.                   *)
LEMMA Positions ==
  ASSUME NEW n \in 0..23, NEW m \in 0..23, NEW access, Comes(access, n, m)
  PROVE  /\ access = "allocate" => n = 0 /\ m = 1
         /\ access = "enterReset" => n = 1 /\ m = 2
         /\ access = "delay" => n = 2 /\ m = 3
         /\ access = "leaveReset" => n = 3 /\ m = 4
         /\ access = "wait" => n = 4 /\ m = 5
         /\ access = "descriptors" => n = 5 /\ m = 6
         /\ access = "disableInterrupt" => n = 6 /\ m = 7
         /\ access = "corbrp" => n = 7 /\ m = 8
         /\ access = "rirbctl" => n = 8 /\ m = 9
         /\ access = "dplOff" => n = 9 /\ m = 10
         /\ access = "turnOff" => (n = 10 /\ m = 11) \/ Replays(n, m)
         /\ access = "bdl" => (n = 11 /\ m = 12) \/ (n = 16 /\ m = 17) \/ Replays(n, m)
         /\ access = "lvi" => (n = 12 /\ m = 13) \/ (n = 17 /\ m = 18) \/ Replays(n, m)
         /\ access = "entries" => (n = 13 /\ m = 14) \/ (n = 18 /\ m = 19) \/ Replays(n, m)
         /\ access = "length" => (n = 14 /\ m = 15) \/ (n = 19 /\ m = 20) \/ Replays(n, m)
         /\ access = "format" => (n = 15 /\ m = 16) \/ (n = 20 /\ m = 21) \/ Replays(n, m)
         /\ access = "dplbase" => (n = 21 /\ m = 22) \/ Replays(n, m)
         /\ access = "run" => (n = 22 /\ m = 23) \/ Replays(n, m)
<1>1. CASE Replays(n, m) /\ access \in PlayStop
  BY <1>1 DEF PlayStop, Replays
<1>2. CASE m = n + 1 /\ access = boot[m]
  <2>1. m \in 1..23
    BY <1>2
  <2> QED
    BY <1>2, <2>1, BootElements
<1> QED
  BY <1>1, <1>2 DEF Comes

-----------------------------------------------------------------------------
(* The accesses, one lemma each: what holds before holds after, one place  *)
(* further.                                                                *)

(* The first output stream and the first stream are streams.               *)
LEMMA NumIn ==
  ASSUME Typed
  PROVE  numIn \in 0..15 /\ numIn \in Streams /\ 0 \in Streams
  BY StreamsAssumption DEF Typed, Streams

(* The constructor sets the buffers, allocated or not.                     *)
LEMMA AllocateKeeps ==
  ASSUME Typed, Facts(0), Allocate
  PROVE  Typed' /\ Facts(1)'
  BY DEF Allocate, Does, controllerVars, Typed, TypeOK, Streams, Facts, LinkAt,
         MembersAt, QuietAt, WasReset, EnginesAt, ProgrammedAt

(* reset writes 0 to the reset bit.                                        *)
LEMMA EnterResetKeeps ==
  ASSUME Typed, Facts(1), EnterReset
  PROVE  Typed' /\ Facts(2)'
  BY DEF EnterReset, WriteCrst, Does, memberVars, Typed, TypeOK, Streams, Facts, LinkAt,
         MembersAt, QuietAt, WasReset, EnginesAt, ProgrammedAt

(* The delay, when it covers the reset, ends with the controller in it.    *)
LEMMA DelayKeeps ==
  ASSUME Typed, Facts(2), Delay
  PROVE  Typed' /\ Facts(3)'
  BY DEF Delay, Does, memberVars, controllerVars, Typed, TypeOK,
         Streams, Facts, LinkAt, MembersAt, QuietAt, WasReset, EnginesAt, ProgrammedAt

(* reset writes 1 to the reset bit.                                        *)
LEMMA LeaveResetKeeps ==
  ASSUME Typed, Facts(3), LeaveReset
  PROVE  Typed' /\ Facts(4)'
  BY DEF LeaveReset, WriteCrst, Does, memberVars, Typed, TypeOK, Streams, Facts, LinkAt,
         MembersAt, QuietAt, WasReset, EnginesAt, ProgrammedAt

(* The polling loop ends with the controller out of its reset.             *)
LEMMA WaitKeeps ==
  ASSUME Typed, Facts(4), WaitForReset
  PROVE  Typed' /\ Facts(5)'
  BY DEF WaitForReset, CrstReady, Does, memberVars, controllerVars, Typed, TypeOK,
         Streams, Facts, LinkAt, MembersAt, QuietAt, WasReset, EnginesAt, ProgrammedAt

(* From here on the members name the streams.                              *)
LEMMA SetDescriptorsKeeps ==
  ASSUME Typed, Facts(5), SetDescriptors
  PROVE  Typed' /\ Facts(6)'
  BY NumIn DEF SetDescriptors, OutputDescriptor, Does, controllerVars, Typed, TypeOK,
         Streams, Facts, LinkAt, MembersAt, QuietAt, WasReset, EnginesAt, ProgrammedAt

(* disableInterrupt reaches the controller.                                *)
LEMMA IntOffKeeps ==
  ASSUME Typed, Facts(6), IntOff
  PROVE  Typed' /\ Facts(7)'
  BY DEF IntOff, WriteOff, Does, memberVars, Typed, TypeOK, Streams, Facts, LinkAt,
         MembersAt, QuietAt, WasReset, EnginesAt, ProgrammedAt

(* The write to the CORB's read pointer leaves the CORB as it is.          *)
LEMMA CorbPtrKeeps ==
  ASSUME Typed, Facts(7), CorbPtr
  PROVE  Typed' /\ Facts(8)'
  BY DEF CorbPtr, WriteOff, Does, memberVars, Typed, TypeOK, Streams, Facts, LinkAt,
         MembersAt, QuietAt, WasReset, EnginesAt, ProgrammedAt

(* The RIRB is turned off.                                                 *)
LEMMA RirbOffKeeps ==
  ASSUME Typed, Facts(8), RirbOff
  PROVE  Typed' /\ Facts(9)'
  BY DEF RirbOff, WriteOff, Does, memberVars, Typed, TypeOK, Streams, Facts, LinkAt,
         MembersAt, QuietAt, WasReset, EnginesAt, ProgrammedAt

(* The firmware's position buffer is turned off.                           *)
LEMMA DplOffKeeps ==
  ASSUME Typed, Facts(9), DplOff
  PROVE  Typed' /\ Facts(10)'
  BY DEF DplOff, WriteDpl, Does, memberVars, Typed, TypeOK, Streams, Facts, LinkAt,
         MembersAt, QuietAt, WasReset, EnginesAt, ProgrammedAt

(* The position buffer is set, when booting or when playing again.         *)
LEMMA DplOnKeeps ==
  ASSUME Typed, NEW n \in 0..23, NEW m \in 0..23, Facts(n), DplOn,
         (n = 21 /\ m = 22) \/ Replays(n, m)
  PROVE  Typed' /\ Facts(m)'
<1> USE DEF DplOn, WriteDpl, Does, memberVars, Facts, Replays
<1>1. Typed'
  BY DEF Typed, TypeOK, Streams, MembersAt
<1>2. LinkAt(m)' /\ MembersAt(m)'
  BY DEF LinkAt, MembersAt
<1>3. QuietAt(m)' /\ EnginesAt(m)'
  BY DEF QuietAt, WasReset, Streams, EnginesAt
<1>4. ProgrammedAt(m)'
  BY DEF ProgrammedAt, Entries, LinkAt
<1> QED
  BY <1>1, <1>2, <1>3, <1>4

(* The list is filled, again with the same entries.                        *)
LEMMA FillEntriesKeeps ==
  ASSUME Typed, NEW n \in 0..23, NEW m \in 0..23, Facts(n), FillEntries,
         (n = 13 /\ m = 14) \/ (n = 18 /\ m = 19) \/ Replays(n, m)
  PROVE  Typed' /\ Facts(m)'
<1> USE DEF FillEntries, Does, memberVars, controllerVars, Facts, Replays
<1>1. Typed'
  BY DEF Typed, TypeOK, Streams
<1>2. LinkAt(m)' /\ MembersAt(m)'
  BY DEF LinkAt, MembersAt
<1>3. QuietAt(m)' /\ EnginesAt(m)'
  BY DEF QuietAt, WasReset, Streams, EnginesAt
<1>4. ProgrammedAt(m)'
  BY DEF ProgrammedAt, Entries
<1> QED
  BY <1>1, <1>2, <1>3, <1>4

(* A register that is written holds what the write gives it.               *)
LEMMA WrittenRegisters ==
  ASSUME NEW r \in Registers
  PROVE  /\ \A b \in BOOLEAN : [r EXCEPT !.run = b] \in Registers
         /\ \A b \in {List, NoPages} : [r EXCEPT !.bdl = b] \in Registers
         /\ [r EXCEPT !.lvi = 1] \in Registers
         /\ [r EXCEPT !.cbl = BufferLength] \in Registers
         /\ [r EXCEPT !.fmt = 1] \in Registers
<1>1. \A b \in BOOLEAN : [r EXCEPT !.run = b] \in Registers
  BY DEF Registers
<1>2. \A b \in {List, NoPages} : [r EXCEPT !.bdl = b] \in Registers
  BY DEF Registers
<1>3. [r EXCEPT !.lvi = 1] \in Registers
  BY DEF Registers
<1>4. [r EXCEPT !.cbl = BufferLength] \in Registers
  BY DEF Registers
<1>5. [r EXCEPT !.fmt = 1] \in Registers
  BY DEF Registers
<1> QED
  BY <1>1, <1>2, <1>3, <1>4, <1>5

(* outputStreamTurnOff stops stream 0, which is the output stream or not.  *)
LEMMA TurnOffKeeps ==
  ASSUME Typed, NEW n \in 0..23, NEW m \in 0..23, Facts(n), TurnOff,
         (n = 10 /\ m = 11) \/ Replays(n, m)
  PROVE  Typed' /\ Facts(m)'
<1> USE DEF TurnOff, WriteStream, Does, memberVars, Facts, Replays
<1>1. link = "up" /\ inputDescriptor = 0 /\ outputDescriptor = numIn
      /\ list \in {List, NoPages}
  BY DEF LinkAt, MembersAt
<1>2. stream' = [stream EXCEPT ![0].run = FALSE]
  BY <1>1
<1>3. stream' \in [Streams -> Registers]
  <2>1. stream \in [Streams -> Registers] /\ 0 \in Streams
    BY NumIn DEF Typed, TypeOK
  <2>2. [stream[0] EXCEPT !.run = FALSE] \in Registers
    BY <1>1, <2>1, WrittenRegisters
  <2> QED
    BY <1>2, <2>1, <2>2
<1>4. \A s \in Streams \ {0} : stream'[s] = stream[s]
  BY <1>2 DEF Typed, TypeOK
<1>5. /\ stream'[0].run = FALSE
      /\ stream'[0].bdl = stream[0].bdl
      /\ stream'[0].lvi = stream[0].lvi
      /\ stream'[0].cbl = stream[0].cbl
      /\ stream'[0].fmt = stream[0].fmt
  BY <1>2, NumIn DEF Typed, TypeOK, Registers
<1>6. Typed'
  BY <1>3 DEF Typed, TypeOK, Streams
<1>7. LinkAt(m)' /\ MembersAt(m)'
  BY DEF LinkAt, MembersAt
<1>8. QuietAt(m)' /\ EnginesAt(m)'
  BY <1>4, <1>5, NumIn DEF QuietAt, WasReset, Streams, EnginesAt, Typed
<1>9. ProgrammedAt(m)'
  BY <1>4, <1>5, NumIn DEF ProgrammedAt, Entries
<1> QED
  BY <1>6, <1>7, <1>8, <1>9

(* The output stream is turned on at the end, or again.                    *)
LEMMA TurnOnKeeps ==
  ASSUME Typed, NEW n \in 0..23, NEW m \in 0..23, Facts(n), TurnOn,
         (n = 22 /\ m = 23) \/ Replays(n, m)
  PROVE  Typed' /\ Facts(m)'
<1> USE DEF TurnOn, WriteStream, Does, memberVars, Facts, Replays
<1>1. link = "up" /\ inputDescriptor = 0 /\ outputDescriptor = numIn
      /\ list \in {List, NoPages}
  BY DEF LinkAt, MembersAt
<1>2. stream' = [stream EXCEPT ![numIn].run = TRUE]
  BY <1>1
<1>3. stream' \in [Streams -> Registers]
  <2>1. stream \in [Streams -> Registers] /\ numIn \in Streams
    BY NumIn DEF Typed, TypeOK
  <2>2. [stream[numIn] EXCEPT !.run = TRUE] \in Registers
    BY <1>1, <2>1, WrittenRegisters
  <2> QED
    BY <1>2, <2>1, <2>2
<1>4. \A s \in Streams \ {numIn} : stream'[s] = stream[s]
  BY <1>2 DEF Typed, TypeOK
<1>5. /\ stream'[numIn].run = TRUE
      /\ stream'[numIn].bdl = stream[numIn].bdl
      /\ stream'[numIn].lvi = stream[numIn].lvi
      /\ stream'[numIn].cbl = stream[numIn].cbl
      /\ stream'[numIn].fmt = stream[numIn].fmt
  BY <1>2, NumIn DEF Typed, TypeOK, Registers
<1>6. Typed'
  BY <1>3 DEF Typed, TypeOK, Streams
<1>7. LinkAt(m)' /\ MembersAt(m)'
  BY DEF LinkAt, MembersAt
<1>8. QuietAt(m)' /\ EnginesAt(m)'
  BY <1>4, <1>5, NumIn DEF QuietAt, WasReset, Streams, EnginesAt, Typed
<1>9. ProgrammedAt(m)'
  BY <1>4, <1>5, NumIn DEF ProgrammedAt, Entries
<1> QED
  BY <1>6, <1>7, <1>8, <1>9

(* The list's address is written, in each set-up.                          *)
LEMMA SetBdlKeeps ==
  ASSUME Typed, NEW n \in 0..23, NEW m \in 0..23, Facts(n), SetBdl,
         (n = 11 /\ m = 12) \/ (n = 16 /\ m = 17) \/ Replays(n, m)
  PROVE  Typed' /\ Facts(m)'
<1> USE DEF SetBdl, WriteStream, Does, memberVars, Facts, Replays
<1>1. link = "up" /\ inputDescriptor = 0 /\ outputDescriptor = numIn
      /\ list \in {List, NoPages}
  BY DEF LinkAt, MembersAt
<1>2. stream' = [stream EXCEPT ![numIn].bdl = list]
  BY <1>1
<1>3. stream' \in [Streams -> Registers]
  <2>1. stream \in [Streams -> Registers] /\ numIn \in Streams
    BY NumIn DEF Typed, TypeOK
  <2>2. [stream[numIn] EXCEPT !.bdl = list] \in Registers
    BY <1>1, <2>1, WrittenRegisters
  <2> QED
    BY <1>2, <2>1, <2>2
<1>4. \A s \in Streams \ {numIn} : stream'[s] = stream[s]
  BY <1>2 DEF Typed, TypeOK
<1>5. /\ stream'[numIn].bdl = list
      /\ stream'[numIn].run = stream[numIn].run
      /\ stream'[numIn].lvi = stream[numIn].lvi
      /\ stream'[numIn].cbl = stream[numIn].cbl
      /\ stream'[numIn].fmt = stream[numIn].fmt
  BY <1>2, NumIn DEF Typed, TypeOK, Registers
<1>6. Typed'
  BY <1>3 DEF Typed, TypeOK, Streams
<1>7. LinkAt(m)' /\ MembersAt(m)'
  BY DEF LinkAt, MembersAt
<1>8. QuietAt(m)' /\ EnginesAt(m)'
  BY <1>4, <1>5, NumIn DEF QuietAt, WasReset, Streams, EnginesAt, Typed
<1>9. ProgrammedAt(m)'
  BY <1>4, <1>5, NumIn DEF ProgrammedAt, Entries
<1> QED
  BY <1>6, <1>7, <1>8, <1>9

(* The last valid index is written.                                        *)
LEMMA SetLviKeeps ==
  ASSUME Typed, NEW n \in 0..23, NEW m \in 0..23, Facts(n), SetLvi,
         (n = 12 /\ m = 13) \/ (n = 17 /\ m = 18) \/ Replays(n, m)
  PROVE  Typed' /\ Facts(m)'
<1> USE DEF SetLvi, WriteStream, Does, memberVars, Facts, Replays
<1>1. link = "up" /\ inputDescriptor = 0 /\ outputDescriptor = numIn
      /\ list \in {List, NoPages}
  BY DEF LinkAt, MembersAt
<1>2. stream' = [stream EXCEPT ![numIn].lvi = 1]
  BY <1>1
<1>3. stream' \in [Streams -> Registers]
  <2>1. stream \in [Streams -> Registers] /\ numIn \in Streams
    BY NumIn DEF Typed, TypeOK
  <2>2. [stream[numIn] EXCEPT !.lvi = 1] \in Registers
    BY <1>1, <2>1, WrittenRegisters
  <2> QED
    BY <1>2, <2>1, <2>2
<1>4. \A s \in Streams \ {numIn} : stream'[s] = stream[s]
  BY <1>2 DEF Typed, TypeOK
<1>5. /\ stream'[numIn].lvi = 1
      /\ stream'[numIn].run = stream[numIn].run
      /\ stream'[numIn].bdl = stream[numIn].bdl
      /\ stream'[numIn].cbl = stream[numIn].cbl
      /\ stream'[numIn].fmt = stream[numIn].fmt
  BY <1>2, NumIn DEF Typed, TypeOK, Registers
<1>6. Typed'
  BY <1>3 DEF Typed, TypeOK, Streams
<1>7. LinkAt(m)' /\ MembersAt(m)'
  BY DEF LinkAt, MembersAt
<1>8. QuietAt(m)' /\ EnginesAt(m)'
  BY <1>4, <1>5, NumIn DEF QuietAt, WasReset, Streams, EnginesAt, Typed
<1>9. ProgrammedAt(m)'
  BY <1>4, <1>5, NumIn DEF ProgrammedAt, Entries
<1> QED
  BY <1>6, <1>7, <1>8, <1>9

(* The length is written.                                                  *)
LEMMA SetCblKeeps ==
  ASSUME Typed, NEW n \in 0..23, NEW m \in 0..23, Facts(n), SetCbl,
         (n = 14 /\ m = 15) \/ (n = 19 /\ m = 20) \/ Replays(n, m)
  PROVE  Typed' /\ Facts(m)'
<1> USE DEF SetCbl, WriteStream, Does, memberVars, Facts, Replays
<1>1. link = "up" /\ inputDescriptor = 0 /\ outputDescriptor = numIn
      /\ list \in {List, NoPages}
  BY DEF LinkAt, MembersAt
<1>2. stream' = [stream EXCEPT ![numIn].cbl = BufferLength]
  BY <1>1
<1>3. stream' \in [Streams -> Registers]
  <2>1. stream \in [Streams -> Registers] /\ numIn \in Streams
    BY NumIn DEF Typed, TypeOK
  <2>2. [stream[numIn] EXCEPT !.cbl = BufferLength] \in Registers
    BY <1>1, <2>1, WrittenRegisters
  <2> QED
    BY <1>2, <2>1, <2>2
<1>4. \A s \in Streams \ {numIn} : stream'[s] = stream[s]
  BY <1>2 DEF Typed, TypeOK
<1>5. /\ stream'[numIn].cbl = BufferLength
      /\ stream'[numIn].run = stream[numIn].run
      /\ stream'[numIn].bdl = stream[numIn].bdl
      /\ stream'[numIn].lvi = stream[numIn].lvi
      /\ stream'[numIn].fmt = stream[numIn].fmt
  BY <1>2, NumIn DEF Typed, TypeOK, Registers
<1>6. Typed'
  BY <1>3 DEF Typed, TypeOK, Streams
<1>7. LinkAt(m)' /\ MembersAt(m)'
  BY DEF LinkAt, MembersAt
<1>8. QuietAt(m)' /\ EnginesAt(m)'
  BY <1>4, <1>5, NumIn DEF QuietAt, WasReset, Streams, EnginesAt, Typed
<1>9. ProgrammedAt(m)'
  BY <1>4, <1>5, NumIn DEF ProgrammedAt, Entries
<1> QED
  BY <1>6, <1>7, <1>8, <1>9

(* The format is written.                                                  *)
LEMMA SetFmtKeeps ==
  ASSUME Typed, NEW n \in 0..23, NEW m \in 0..23, Facts(n), SetFmt,
         (n = 15 /\ m = 16) \/ (n = 20 /\ m = 21) \/ Replays(n, m)
  PROVE  Typed' /\ Facts(m)'
<1> USE DEF SetFmt, WriteStream, Does, memberVars, Facts, Replays
<1>1. link = "up" /\ inputDescriptor = 0 /\ outputDescriptor = numIn
      /\ list \in {List, NoPages}
  BY DEF LinkAt, MembersAt
<1>2. stream' = [stream EXCEPT ![numIn].fmt = 1]
  BY <1>1
<1>3. stream' \in [Streams -> Registers]
  <2>1. stream \in [Streams -> Registers] /\ numIn \in Streams
    BY NumIn DEF Typed, TypeOK
  <2>2. [stream[numIn] EXCEPT !.fmt = 1] \in Registers
    BY <1>1, <2>1, WrittenRegisters
  <2> QED
    BY <1>2, <2>1, <2>2
<1>4. \A s \in Streams \ {numIn} : stream'[s] = stream[s]
  BY <1>2 DEF Typed, TypeOK
<1>5. /\ stream'[numIn].fmt = 1
      /\ stream'[numIn].run = stream[numIn].run
      /\ stream'[numIn].bdl = stream[numIn].bdl
      /\ stream'[numIn].lvi = stream[numIn].lvi
      /\ stream'[numIn].cbl = stream[numIn].cbl
  BY <1>2, NumIn DEF Typed, TypeOK, Registers
<1>6. Typed'
  BY <1>3 DEF Typed, TypeOK, Streams
<1>7. LinkAt(m)' /\ MembersAt(m)'
  BY DEF LinkAt, MembersAt
<1>8. QuietAt(m)' /\ EnginesAt(m)'
  BY <1>4, <1>5, NumIn DEF QuietAt, WasReset, Streams, EnginesAt, Typed
<1>9. ProgrammedAt(m)'
  BY <1>4, <1>5, NumIn DEF ProgrammedAt, Entries
<1> QED
  BY <1>6, <1>7, <1>8, <1>9

(* Each access takes the driver from one place to the next, and the facts  *)
(* with it.                                                                *)
LEMMA AccessKeeps ==
  ASSUME IInv, Access
  PROVE  IInv'
<1>1. PICK n \in 0..23 : Place(n) /\ Facts(n)
  BY DEF IInv
<1>2. SUFFICES \E m \in 0..23 : Place(m)' /\ Typed' /\ Facts(m)'
  BY DEF IInv
<1> USE <1>1
<1>3. Typed
  BY DEF IInv
<1> USE <1>3
<1>4. CASE Allocate
  <2>1. PICK m \in 0..23 : Comes("allocate", n, m) /\ Place(m)'
    BY <1>4, DriverComes DEF Allocate
  <2>2. Typed' /\ Facts(m)'
    BY <1>4, <2>1, Positions, AllocateKeeps
  <2> QED
    BY <2>1, <2>2
<1>5. CASE EnterReset
  <2>1. PICK m \in 0..23 : Comes("enterReset", n, m) /\ Place(m)'
    BY <1>5, DriverComes DEF EnterReset, WriteCrst
  <2>2. Typed' /\ Facts(m)'
    BY <1>5, <2>1, Positions, EnterResetKeeps
  <2> QED
    BY <2>1, <2>2
<1>6. CASE Delay
  <2>1. PICK m \in 0..23 : Comes("delay", n, m) /\ Place(m)'
    BY <1>6, DriverComes DEF Delay
  <2>2. Typed' /\ Facts(m)'
    BY <1>6, <2>1, Positions, DelayKeeps
  <2> QED
    BY <2>1, <2>2
<1>7. CASE LeaveReset
  <2>1. PICK m \in 0..23 : Comes("leaveReset", n, m) /\ Place(m)'
    BY <1>7, DriverComes DEF LeaveReset, WriteCrst
  <2>2. Typed' /\ Facts(m)'
    BY <1>7, <2>1, Positions, LeaveResetKeeps
  <2> QED
    BY <2>1, <2>2
<1>8. CASE WaitForReset
  <2>1. PICK m \in 0..23 : Comes("wait", n, m) /\ Place(m)'
    BY <1>8, DriverComes DEF WaitForReset
  <2>2. Typed' /\ Facts(m)'
    BY <1>8, <2>1, Positions, WaitKeeps
  <2> QED
    BY <2>1, <2>2
<1>9. CASE SetDescriptors
  <2>1. PICK m \in 0..23 : Comes("descriptors", n, m) /\ Place(m)'
    BY <1>9, DriverComes DEF SetDescriptors
  <2>2. Typed' /\ Facts(m)'
    BY <1>9, <2>1, Positions, SetDescriptorsKeeps
  <2> QED
    BY <2>1, <2>2
<1>10. CASE TurnOff
  <2>1. PICK m \in 0..23 : Comes("turnOff", n, m) /\ Place(m)'
    BY <1>10, DriverComes DEF TurnOff, WriteStream
  <2>2. Typed' /\ Facts(m)'
    BY <1>10, <2>1, Positions, TurnOffKeeps
  <2> QED
    BY <2>1, <2>2
<1>11. CASE TurnOn
  <2>1. PICK m \in 0..23 : Comes("run", n, m) /\ Place(m)'
    BY <1>11, DriverComes DEF TurnOn, WriteStream
  <2>2. Typed' /\ Facts(m)'
    BY <1>11, <2>1, Positions, TurnOnKeeps
  <2> QED
    BY <2>1, <2>2
<1>12. CASE SetBdl
  <2>1. PICK m \in 0..23 : Comes("bdl", n, m) /\ Place(m)'
    BY <1>12, DriverComes DEF SetBdl, WriteStream
  <2>2. Typed' /\ Facts(m)'
    BY <1>12, <2>1, Positions, SetBdlKeeps
  <2> QED
    BY <2>1, <2>2
<1>13. CASE SetLvi
  <2>1. PICK m \in 0..23 : Comes("lvi", n, m) /\ Place(m)'
    BY <1>13, DriverComes DEF SetLvi, WriteStream
  <2>2. Typed' /\ Facts(m)'
    BY <1>13, <2>1, Positions, SetLviKeeps
  <2> QED
    BY <2>1, <2>2
<1>14. CASE SetCbl
  <2>1. PICK m \in 0..23 : Comes("length", n, m) /\ Place(m)'
    BY <1>14, DriverComes DEF SetCbl, WriteStream
  <2>2. Typed' /\ Facts(m)'
    BY <1>14, <2>1, Positions, SetCblKeeps
  <2> QED
    BY <2>1, <2>2
<1>15. CASE SetFmt
  <2>1. PICK m \in 0..23 : Comes("format", n, m) /\ Place(m)'
    BY <1>15, DriverComes DEF SetFmt, WriteStream
  <2>2. Typed' /\ Facts(m)'
    BY <1>15, <2>1, Positions, SetFmtKeeps
  <2> QED
    BY <2>1, <2>2
<1>16. CASE DplOff
  <2>1. PICK m \in 0..23 : Comes("dplOff", n, m) /\ Place(m)'
    BY <1>16, DriverComes DEF DplOff, WriteDpl
  <2>2. Typed' /\ Facts(m)'
    BY <1>16, <2>1, Positions, DplOffKeeps
  <2> QED
    BY <2>1, <2>2
<1>17. CASE DplOn
  <2>1. PICK m \in 0..23 : Comes("dplbase", n, m) /\ Place(m)'
    BY <1>17, DriverComes DEF DplOn, WriteDpl
  <2>2. Typed' /\ Facts(m)'
    BY <1>17, <2>1, Positions, DplOnKeeps
  <2> QED
    BY <2>1, <2>2
<1>18. CASE CorbPtr
  <2>1. PICK m \in 0..23 : Comes("corbrp", n, m) /\ Place(m)'
    BY <1>18, DriverComes DEF CorbPtr, WriteOff
  <2>2. Typed' /\ Facts(m)'
    BY <1>18, <2>1, Positions, CorbPtrKeeps
  <2> QED
    BY <2>1, <2>2
<1>19. CASE RirbOff
  <2>1. PICK m \in 0..23 : Comes("rirbctl", n, m) /\ Place(m)'
    BY <1>19, DriverComes DEF RirbOff, WriteOff
  <2>2. Typed' /\ Facts(m)'
    BY <1>19, <2>1, Positions, RirbOffKeeps
  <2> QED
    BY <2>1, <2>2
<1>20. CASE IntOff
  <2>1. PICK m \in 0..23 : Comes("disableInterrupt", n, m) /\ Place(m)'
    BY <1>20, DriverComes DEF IntOff, WriteOff
  <2>2. Typed' /\ Facts(m)'
    BY <1>20, <2>1, Positions, IntOffKeeps
  <2> QED
    BY <2>1, <2>2
<1>21. CASE FillEntries
  <2>1. PICK m \in 0..23 : Comes("entries", n, m) /\ Place(m)'
    BY <1>21, DriverComes DEF FillEntries
  <2>2. Typed' /\ Facts(m)'
    BY <1>21, <2>1, Positions, FillEntriesKeeps
  <2> QED
    BY <2>1, <2>2
<1> QED
  BY <1>4, <1>5, <1>6, <1>7, <1>8, <1>9, <1>10, <1>11, <1>12, <1>13, <1>14,
     <1>15, <1>16, <1>17, <1>18, <1>19, <1>20, <1>21
     DEF Access

(* With nothing left to do the driver is at the end of the boot sequence.  *)
LEMMA DoneIsLast ==
  ASSUME NEW n \in 0..23, Place(n), todo = <<>>
  PROVE  n = 23
<1>1. CASE calls = 0 /\ todo = Rest(n)
  <2>1. ASSUME n \in 0..22
        PROVE  FALSE
    <3>1. Rest(n) # <<>>
      BY <2>1, RestSteps
    <3> QED
      BY <1>1, <3>1
  <2> QED
    BY <2>1
<1> QED
  BY <1>1 DEF Place

(* The calls after the boot sequence start over at its end.                *)
LEMMA CallKeeps ==
  ASSUME IInv, Call
  PROVE  IInv'
<1> USE DEF Call, memberVars, controllerVars
<1>1. PICK n \in 0..23 : Place(n) /\ Facts(n)
  BY DEF IInv
<1>2. Typed
  BY DEF IInv
<1>3. n = 23
  BY <1>1, DoneIsLast DEF Call
<1>4. calls \in Nat /\ calls' = calls + 1 /\ calls' \in 0..MaxCalls
  BY <1>2, BoundsAssumption DEF Typed, TypeOK
<1>5. Place(23)'
  BY <1>4, PlaySoundIsRest DEF Place, Rest, stopSound
<1>6. Typed'
  BY <1>2, <1>4 DEF Typed, TypeOK, Streams
<1>7. LinkAt(23)' /\ MembersAt(23)'
  BY <1>1, <1>3 DEF Facts, LinkAt, MembersAt
<1>8. QuietAt(23)' /\ EnginesAt(23)' /\ ProgrammedAt(23)'
  BY <1>1, <1>3, <1>4 DEF Facts, QuietAt, WasReset, Streams, EnginesAt, ProgrammedAt, Entries
<1> QED
  BY <1>5, <1>6, <1>7, <1>8 DEF IInv, Facts

(* The controller enters its reset only while the driver's bit is 0.       *)
LEMMA EntersResetKeeps ==
  ASSUME IInv, ControllerEntersReset
  PROVE  IInv'
<1> USE DEF ControllerEntersReset, driverVars, memberVars
<1>1. PICK n \in 0..23 : Place(n) /\ Facts(n)
  BY DEF IInv
<1>2. Typed
  BY DEF IInv
<1>3. n \in {2, 3}
  BY <1>1 DEF Facts, LinkAt
<1>4. \A s \in Streams : stream'[s] = Stopped
  OBVIOUS
<1>5. Place(n)'
  BY <1>1, <1>3 DEF Place, Rest
<1>6. Typed'
  BY <1>2, <1>4 DEF Typed, TypeOK, Streams, Registers, Stopped
<1>7. LinkAt(n)' /\ MembersAt(n)'
  BY <1>1, <1>3 DEF Facts, LinkAt, MembersAt
<1>8. QuietAt(n)' /\ EnginesAt(n)' /\ ProgrammedAt(n)'
  BY <1>3, <1>4 DEF QuietAt, WasReset, Streams, EnginesAt, ProgrammedAt, Stopped
<1> QED
  BY <1>5, <1>6, <1>7, <1>8 DEF IInv, Facts

(* It leaves its reset only while that bit is 1.                           *)
LEMMA LeavesResetKeeps ==
  ASSUME IInv, ControllerLeavesReset
  PROVE  IInv'
<1> USE DEF ControllerLeavesReset, driverVars, memberVars
<1>1. PICK n \in 0..23 : Place(n) /\ Facts(n)
  BY DEF IInv
<1>2. Typed
  BY DEF IInv
<1>3. n \notin {2, 3}
  BY <1>1 DEF Facts, LinkAt
<1>5. Place(n)'
  BY <1>1 DEF Place, Rest
<1>6. Typed'
  BY <1>2 DEF Typed, TypeOK, Streams
<1>7. LinkAt(n)' /\ MembersAt(n)'
  BY <1>1, <1>3 DEF Facts, LinkAt, MembersAt
<1>8. QuietAt(n)' /\ EnginesAt(n)' /\ ProgrammedAt(n)'
  BY <1>1 DEF Facts, QuietAt, WasReset, Streams, EnginesAt, ProgrammedAt, Entries
<1> QED
  BY <1>5, <1>6, <1>7, <1>8 DEF IInv, Facts

(* The invariant speaks of neither what was fetched nor what stutters.     *)
LEMMA OthersKeep ==
  ASSUME IInv, Fetch \/ UNCHANGED vars
  PROVE  IInv'
<1>1. UNCHANGED <<todo, calls, audio, list, position, inputDescriptor, outputDescriptor,
                  entries, numIn, request, link, stream, engines, dpl>>
  BY DEF Fetch, vars, controllerVars, driverVars, memberVars
<1>2. PICK n \in 0..23 : Place(n) /\ Facts(n)
  BY DEF IInv
<1>3. Typed'
  BY <1>1 DEF IInv, Typed, TypeOK, Streams
<1>4. Place(n)'
  BY <1>1, <1>2 DEF Place, Rest
<1>5. LinkAt(n)' /\ MembersAt(n)'
  BY <1>1, <1>2 DEF Facts, LinkAt, MembersAt
<1>6. QuietAt(n)' /\ EnginesAt(n)' /\ ProgrammedAt(n)'
  BY <1>1, <1>2 DEF Facts, QuietAt, WasReset, Streams, EnginesAt, ProgrammedAt, Entries
<1> QED
  BY <1>3, <1>4, <1>5, <1>6 DEF IInv, Facts

(* At the start nothing is done and nothing is set.                        *)
LEMMA InitEstablishes == Init => IInv
<1> SUFFICES ASSUME Init
             PROVE  IInv
  OBVIOUS
<1>1. Place(0)
  BY RestStarts DEF Init, Place
<1>2. stream \in [Streams -> Registers]
  <2>1. Stopped \in Registers
    BY DEF Registers, Stopped
  <2>2. [Stopped EXCEPT !.run = TRUE] \in Registers
    BY <2>1, WrittenRegisters
  <2> QED
    BY <2>1, <2>2 DEF Init
<1>3. Typed
  BY <1>2, BoundsAssumption DEF Init, Typed, TypeOK
<1>4. Facts(0)
  BY DEF Init, Facts, LinkAt, MembersAt, QuietAt, WasReset, EnginesAt, ProgrammedAt
<1> QED
  BY <1>1, <1>3, <1>4 DEF IInv

(* Every step keeps the invariant.                                         *)
LEMMA NextKeeps == IInv /\ [Next]_vars => IInv'
  BY AccessKeeps, CallKeeps, EntersResetKeeps, LeavesResetKeeps, OthersKeep
     DEF Next, Follow, Finished

(* The inductive invariant holds in every reachable state.                 *)
THEOREM Invariance == Spec => []IInv
  BY InitEstablishes, NextKeeps, PTL DEF Spec
-----------------------------------------------------------------------------
(* Every variable has its type, the stream registers included.             *)
THEOREM TypeCorrect == Spec => []TypeOK
<1>1. IInv => TypeOK
  BY DEF IInv, Typed
<1> QED
  BY <1>1, Invariance, PTL

(* After a reset the delay covers, no stream runs but the first output     *)
(* stream, and that one only when outputStreamSetDescriptorList, the length *)
(* and the format are done: in the states between two accesses as well.    *)
THEOREM NothingElseRuns == Spec => []RunsProgrammed
<1>1. IInv => RunsProgrammed
  <2> SUFFICES ASSUME IInv, AfterReset, DelayCovers,
                      NEW s \in Streams, stream[s].run
               PROVE  /\ s = numIn
                      /\ stream[s].lvi = 1 /\ stream[s].cbl = BufferLength /\ stream[s].fmt = 1
                      /\ stream[s].bdl = list
                      /\ list = List => entries[1].length = BufferLength
    BY DEF RunsProgrammed
  <2>1. PICK n \in 0..23 : Facts(n)
    BY DEF IInv
  <2>2. n >= 6
    BY <2>1 DEF Facts, MembersAt, AfterReset
  <2>3. s = numIn /\ n = 23
    BY <2>1, <2>2 DEF Facts, QuietAt, WasReset
  <2> QED
    BY <2>1, <2>3 DEF Facts, ProgrammedAt, Entries
<1> QED
  BY <1>1, Invariance, PTL

(* When efi_init's sequence is over the stream plays what was programmed,  *)
(* and interrupts and the RIRB are off, whether or not the reset happened. *)
THEOREM BootPlaysAlways == Spec => []BootPlays
<1>1. IInv => BootPlays
  <2> SUFFICES ASSUME IInv, Booted, calls = 0
               PROVE  /\ stream[numIn].run /\ stream[numIn].lvi = 1
                      /\ stream[numIn].cbl = BufferLength /\ stream[numIn].fmt = 1
                      /\ stream[numIn].bdl = list /\ dpl = position
                      /\ engines \subseteq IF DelayCovers THEN {} ELSE {"corb"}
    BY DEF BootPlays
  <2>1. PICK n \in 0..23 : Place(n) /\ Facts(n)
    BY DEF IInv
  <2>2. todo = <<>>
    BY DEF Booted, IInv, Typed, TypeOK
  <2>3. n = 23
    BY <2>1, <2>2, DoneIsLast
  <2>4. engines \subseteq IF DelayCovers THEN {} ELSE {"corb"}
    <3>1. engines \subseteq {"corb", "rirb", "interrupts"}
      BY DEF IInv, Typed, TypeOK
    <3>2. "interrupts" \notin engines /\ "rirb" \notin engines
      BY <2>1, <2>3 DEF Facts, EnginesAt
    <3>3. DelayCovers => engines = {}
      BY <2>1, <2>3 DEF Facts, QuietAt, WasReset
    <3>4. CASE DelayCovers
      BY <3>3, <3>4
    <3>5. CASE ~DelayCovers
      BY <3>1, <3>2, <3>5
    <3> QED
      BY <3>4, <3>5
  <2> QED
    BY <2>1, <2>3, <2>4 DEF Facts, ProgrammedAt
<1> QED
  BY <1>1, Invariance, PTL

(* What the controller fetches, at any moment between the driver's         *)
(* accesses, is an entry of the filled list.                               *)
THEOREM FetchedInBuffer == Spec => FetchesInBuffer
<1>1. ASSUME IInv, [Next]_vars, AfterReset, DelayCovers, Allocated, fetched' # fetched
      PROVE  fetched'.address = Audio /\ fetched'.length <= BufferLength
  <2>1. Fetch
    BY <1>1 DEF Next, Access, Allocate, EnterReset, LeaveReset, WriteCrst, Delay,
       WaitForReset, SetDescriptors, TurnOff, TurnOn, SetBdl, SetLvi, SetCbl, SetFmt,
       WriteStream, DplOff, DplOn, WriteDpl, CorbPtr, RirbOff, IntOff, WriteOff,
       FillEntries, Call, Follow, ControllerEntersReset, ControllerLeavesReset,
       Finished, vars, controllerVars
  <2>2. PICK n \in 0..23 : Facts(n)
    BY <1>1 DEF IInv
  <2>3. n >= 6
    BY <1>1, <2>2 DEF Facts, MembersAt, AfterReset
  <2>4. PICK s \in Streams :
          /\ stream[s].run
          /\ \E i \in 0..stream[s].lvi :
               fetched' = IF stream[s].bdl = List THEN entries[i + 1] ELSE Garbage
    BY <2>1 DEF Fetch
  <2>5. s = numIn /\ n = 23
    BY <1>1, <2>2, <2>3, <2>4 DEF Facts, QuietAt, WasReset
  <2>6. stream[s].bdl = List /\ stream[s].lvi = 1 /\ entries = Entries
    BY <1>1, <2>2, <2>5 DEF Facts, ProgrammedAt, Allocated
  <2>7. PICK i \in 0..1 : fetched' = entries[i + 1]
    BY <2>4, <2>6
  <2>8. fetched' = [address |-> Audio, length |-> BufferLength]
    BY <1>1, <2>6, <2>7 DEF Entries, Allocated
  <2> QED
    BY <2>8 DEF BufferLength
<1>2. IInv /\ [Next]_vars =>
        [AfterReset /\ DelayCovers /\ Allocated /\ fetched' # fetched =>
           fetched'.address = Audio /\ fetched'.length <= BufferLength]_vars
  BY <1>1
<1> QED
  BY <1>2, Invariance, PTL DEF FetchesInBuffer, Spec
=============================================================================
