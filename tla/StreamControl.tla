---------------------------- MODULE StreamControl ----------------------------
(***************************************************************************)
(* HDACodec's controller side: the buffers its constructor allocates, the  *)
(* controller reset, and the stream descriptor that plays the buffer, in   *)
(* the order efi_init calls them; stopSound and playSound may follow.      *)
(*                                                                         *)
(* The driver is the list of register accesses it still has to make, one   *)
(* action each; the controller follows the reset bit and fetches buffer    *)
(* descriptors beside it. A write to a controller in reset is lost.        *)
(*                                                                         *)
(* A stream is named by its index: its registers are at 0x80 + 0x20 * s,   *)
(* the input streams come first.                                           *)
(***************************************************************************)
EXTENDS Integers, Sequences

CONSTANTS
  InputStreams,    \* the numbers of input streams a controller may have
  OutputStreams,   \* the number of output streams
  DelayCovers,     \* the delay loop of reset is longer than the controller takes
  MaxCalls         \* bound on the calls after efi_init's own

ASSUME StreamsAssumption == /\ InputStreams \subseteq 0..15
                            /\ OutputStreams \in 1..15
ASSUME BoundsAssumption == DelayCovers \in BOOLEAN /\ MaxCalls \in Nat

None  == 0         \* a register that was reset
Audio == 1         \* m_audioBuffer, 16 pages
List  == 2         \* m_descriptorBuffer, 1 page
Position == 3      \* m_dmaPositionBuffer, 1 page
NoPages == 4       \* what a member holds if its allocation failed
Foreign == 5       \* what the firmware put into a register
Unset == -1        \* a member that is not initialised

BufferLength == 16 * 4096

VARIABLES
  todo,              \* the accesses the driver makes next
  calls,             \* playSound and stopSound calls after the boot sequence
  audio, list, position,               \* the buffers: allocated or NoPages
  inputDescriptor, outputDescriptor,   \* the streams of these members
  numIn,             \* input streams of this controller, from GCAP
  request,           \* GCTL bit 0 as written
  link,              \* the controller: "up" or in reset, "down"; GCTL bit 0 as read
  stream,            \* the stream descriptors
  engines,           \* what else of the controller is turned on
  dpl,               \* DPLBASE: the position buffer; None while not enabled
  entries,           \* the buffer descriptor list in memory
  fetched            \* the buffer descriptor the output stream fetched last

driverVars == <<todo, calls>>
memberVars == <<audio, list, position, inputDescriptor, outputDescriptor>>
controllerVars == <<numIn, request, link, stream, engines, dpl, fetched>>
vars == <<driverVars, memberVars, controllerVars, entries>>

Streams == 0..(numIn + OutputStreams - 1)

Stopped == [run |-> FALSE, bdl |-> None, lvi |-> 0, cbl |-> 0, fmt |-> None]

Garbage == [address |-> None, length |-> 0]
-----------------------------------------------------------------------------
(* What the driver does, as sequences of register accesses.                *)

reset == <<"enterReset", "delay", "leaveReset", "wait", "descriptors">>

turnOffCorbRirbDmapos == <<"corbrp", "rirbctl", "dplOff">>

outputStreamSetDescriptorList == <<"bdl", "lvi", "entries">>

outputStreamTurnOn == <<"dplbase", "run">>

playSound == outputStreamSetDescriptorList \o <<"length", "format">>
               \o outputStreamTurnOn

stopSound == <<"turnOff">>

(* Faulty: the polling loop after the reset is left out.                   *)
bootWithoutWait ==
  <<"allocate", "enterReset", "delay", "leaveReset", "descriptors", "disableInterrupt">>
    \o turnOffCorbRirbDmapos \o stopSound
    \o outputStreamSetDescriptorList \o <<"length", "format">>
    \o playSound

(* efi_init: the constructor, reset, disableInterrupt,                     *)
(* turnOffCorbRirbDmapos, outputStreamTurnOff, the set-up of the stream,   *)
(* and playSound.                                                          *)
boot == <<"allocate">> \o reset \o <<"disableInterrupt">>
          \o turnOffCorbRirbDmapos \o stopSound
          \o outputStreamSetDescriptorList \o <<"length", "format">>
          \o playSound

(* The firmware may have left the streams running.                         *)
Init == /\ todo = boot
        /\ calls = 0
        /\ audio = Unset /\ list = Unset /\ position = Unset
        /\ inputDescriptor = Unset /\ outputDescriptor = Unset
        /\ numIn \in InputStreams
        /\ request = 1
        /\ link = "up"
        /\ stream \in [Streams -> {Stopped, [Stopped EXCEPT !.run = TRUE]}]
        /\ engines \in SUBSET {"corb", "rirb", "interrupts"}
        /\ dpl \in {None, Foreign}
        /\ entries = <<Garbage, Garbage>>
        /\ fetched = Garbage
-----------------------------------------------------------------------------
(* The driver. *)

Does(access) == todo # <<>> /\ Head(todo) = access /\ todo' = Tail(todo)
                  /\ UNCHANGED calls

(* The constructor: an allocation that fails is reported and ignored.      *)
Allocate ==
  /\ Does("allocate")
  /\ audio' \in {Audio, NoPages}
  /\ list' \in {List, NoPages}
  /\ position' \in {Position, NoPages}
  /\ UNCHANGED <<inputDescriptor, outputDescriptor, entries, controllerVars>>

WriteCrst(access, bit) ==
  /\ Does(access)
  /\ request' = bit
  /\ UNCHANGED <<memberVars, entries, numIn, link, stream, engines, dpl, fetched>>

EnterReset == WriteCrst("enterReset", 0)
LeaveReset == WriteCrst("leaveReset", 1)

(* The delay loop looks at nothing.                                        *)
Delay ==
  /\ Does("delay")
  /\ DelayCovers => link = "down"
  /\ UNCHANGED <<memberVars, entries, controllerVars>>

(* Faulty: the bit is polled until it reads 0.                             *)
CrstReadsZero == link = "down"

(* The loop after the reset polls until GCTL bit 0 reads 1.                *)
CrstReady == link = "up"

WaitForReset ==
  /\ Does("wait")
  /\ CrstReady
  /\ UNCHANGED <<memberVars, entries, controllerVars>>

(* Faulty: the output streams are taken to come first.                     *)
OutputDescriptorFirst == 0

(* Faulty: the output streams are skipped too.                             *)
OutputDescriptorPast == numIn + OutputStreams

OutputDescriptor == numIn

SetDescriptors ==
  /\ Does("descriptors")
  /\ inputDescriptor' = 0
  /\ outputDescriptor' = OutputDescriptor
  /\ UNCHANGED <<audio, list, position, entries, controllerVars>>

(* A write to register field of stream s.                                  *)
WriteStream(access, s, field, value) ==
  /\ Does(access)
  /\ stream' = IF link = "up" THEN [stream EXCEPT ![s][field] = value] ELSE stream
  /\ UNCHANGED <<memberVars, entries, numIn, request, link, engines, dpl, fetched>>

WriteDpl(access, value) ==
  /\ Does(access)
  /\ dpl' = IF link = "up" THEN value ELSE dpl
  /\ UNCHANGED <<memberVars, entries, numIn, request, link, stream, engines, fetched>>

(* Of the writes that turn other parts off; one to the CORB's read pointer  *)
(* leaves the CORB running.                                                 *)
WriteOff(access, engine) ==
  /\ Does(access)
  /\ engines' = IF link = "up" THEN engines \ {engine} ELSE engines
  /\ UNCHANGED <<memberVars, entries, numIn, request, link, stream, dpl, fetched>>

(* outputStreamTurnOff names m_inputDescriptor.                            *)
TurnOff  == WriteStream("turnOff", inputDescriptor, "run", FALSE)
TurnOn   == WriteStream("run", outputDescriptor, "run", TRUE)
SetBdl   == WriteStream("bdl", outputDescriptor, "bdl", list)
SetLvi   == WriteStream("lvi", outputDescriptor, "lvi", 1)
SetCbl   == WriteStream("length", outputDescriptor, "cbl", BufferLength)
SetFmt   == WriteStream("format", outputDescriptor, "fmt", 1)
DplOff   == WriteDpl("dplOff", None)
CorbPtr  == WriteOff("corbrp", "none")
RirbOff  == WriteOff("rirbctl", "rirb")
IntOff   == WriteOff("disableInterrupt", "interrupts")
DplOn    == WriteDpl("dplbase", position)

(* Faulty: the second entry runs on past the buffer.                       *)
EntriesPastEnd == <<[address |-> audio, length |-> BufferLength],
                    [address |-> audio, length |-> 2 * BufferLength]>>

Entries == <<[address |-> audio, length |-> BufferLength],
             [address |-> audio, length |-> BufferLength]>>

(* The list is filled after its address is in the register.                *)
FillEntries ==
  /\ Does("entries")
  /\ entries' = IF list = List THEN Entries ELSE entries
  /\ UNCHANGED <<memberVars, controllerVars>>

Access == \/ Allocate \/ EnterReset \/ Delay \/ LeaveReset \/ WaitForReset
          \/ SetDescriptors \/ TurnOff \/ TurnOn
          \/ SetBdl \/ SetLvi \/ SetCbl \/ SetFmt
          \/ DplOff \/ DplOn \/ CorbPtr \/ RirbOff \/ IntOff \/ FillEntries

(* After the boot sequence.                                                *)
Call == /\ todo = <<>>
        /\ calls < MaxCalls
        /\ calls' = calls + 1
        /\ todo' \in {playSound, stopSound}
        /\ UNCHANGED <<memberVars, controllerVars, entries>>
-----------------------------------------------------------------------------
(* The controller. *)

ControllerEntersReset ==
  /\ request = 0 /\ link = "up"
  /\ link' = "down"
  /\ stream' = [s \in Streams |-> Stopped]
  /\ engines' = {}
  /\ dpl' = None
  /\ UNCHANGED <<driverVars, memberVars, entries, numIn, request, fetched>>

ControllerLeavesReset ==
  /\ request = 1 /\ link = "down"
  /\ link' = "up"
  /\ UNCHANGED <<driverVars, memberVars, entries, numIn, request, stream, engines, dpl, fetched>>

(* A running output stream fetches an entry of its list, up to the last    *)
(* valid index.                                                            *)
Fetch ==
  /\ \E s \in Streams :
       /\ s >= numIn
       /\ stream[s].run
       /\ \E i \in 0..stream[s].lvi :
            fetched' = IF stream[s].bdl = List THEN entries[i + 1] ELSE Garbage
  /\ UNCHANGED <<driverVars, memberVars, entries, numIn, request, link, stream, engines, dpl>>

Follow == ControllerEntersReset \/ ControllerLeavesReset

(* No call is left to make.                                                *)
Finished == todo = <<>> /\ calls = MaxCalls /\ UNCHANGED vars

Next == Access \/ Call \/ Follow \/ Fetch \/ Finished

(* The driver's thread runs and the controller follows its reset bit.      *)
Spec == Init /\ [][Next]_vars /\ WF_vars(Access) /\ WF_vars(Follow)
-----------------------------------------------------------------------------
Registers == [run : BOOLEAN, bdl : {None, List, NoPages}, lvi : {0, 1},
              cbl : {0, BufferLength}, fmt : {None, 1}]

TypeOK == /\ calls \in 0..MaxCalls
          /\ audio \in {Unset, NoPages, Audio} /\ list \in {Unset, NoPages, List}
          /\ position \in {Unset, NoPages, Position}
          /\ inputDescriptor \in {Unset, 0}
          /\ outputDescriptor \in {Unset} \cup Streams
          /\ request \in {0, 1} /\ link \in {"up", "down"}
          /\ stream \in [Streams -> Registers]
          /\ engines \subseteq {"corb", "rirb", "interrupts"}
          /\ dpl \in {None, Foreign, NoPages, Position}

Booted == calls > 0 \/ todo = <<>>

Allocated == audio = Audio /\ list = List /\ position = Position

(* The controller has been out of its reset and the driver knows where its *)
(* streams are.                                                            *)
AfterReset == outputDescriptor # Unset

(* After the reset nothing runs but the first output stream, and that one   *)
(* only with its list, last valid index, length and format set and the list *)
(* in memory filled: neither a stream the firmware left running nor an      *)
(* input stream survives.                                                   *)
RunsProgrammed ==
  AfterReset /\ DelayCovers =>
    \A s \in Streams : stream[s].run =>
      /\ s = numIn
      /\ stream[s].lvi = 1 /\ stream[s].cbl = BufferLength /\ stream[s].fmt = 1
      /\ stream[s].bdl = list
      /\ list = List => entries[1].length = BufferLength

(* When efi_init comes to its console the stream plays: every write of the  *)
(* set-up reached a controller that was out of reset. Interrupts, the       *)
(* command rings and the firmware's position buffer are off, the CORB only  *)
(* because the reset turns it off.                                          *)
BootPlays ==
  Booted /\ calls = 0 =>
    LET s == stream[numIn] IN
    /\ s.run /\ s.lvi = 1 /\ s.cbl = BufferLength /\ s.fmt = 1
    /\ s.bdl = list /\ dpl = position
    /\ engines \subseteq IF DelayCovers THEN {} ELSE {"corb"}

(* With all buffers allocated, what the controller fetches after the reset  *)
(* stays inside the audio buffer, whatever is played or stopped meanwhile.  *)
FetchesInBuffer ==
  [][AfterReset /\ DelayCovers /\ Allocated /\ fetched' # fetched =>
       fetched'.address = Audio /\ fetched'.length <= BufferLength]_vars

(* The boot sequence ends: reset's polling loop is left.                    *)
BootEnds == <>Booted

(* stopSound, through outputStreamTurnOff, leaves no output stream running. *)
StopStops ==
  [][todo = stopSound /\ todo' = <<>> =>
       \A s \in Streams : s >= numIn => ~stream'[s].run]_vars
=============================================================================
