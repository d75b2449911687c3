------------------------------ MODULE PciScan ------------------------------
(***************************************************************************)
(* findHDAudioDevice and the loop of efi_init that calls it: the functions *)
(* of the PCI buses are probed one configuration read at a time for class  *)
(* 4, subclass 3; each search starts at the bus, the device and one past   *)
(* the function found before, and the function found last gets the         *)
(* command register.                                                       *)
(*                                                                         *)
(* The start values are where all three loops start, the inner ones again  *)
(* for every bus and device: a search that goes on at (b, d, f) probes no  *)
(* device below d and no function below f on any bus.                      *)
(***************************************************************************)
EXTENDS Integers, FiniteSets

CONSTANTS
  LastBus,       \* the value that ends the bus loop (0xff); it is not probed
  NumDevices,    \* devices of a bus (32)
  NumFunctions,  \* functions of a device (8)
  MaxPresent     \* bound on the HD audio functions present

ASSUME LimitsAssumption == /\ LastBus \in 1..255
                           /\ NumDevices \in 1..32
                           /\ NumFunctions \in 1..8

Locations == [bus : 0..LastBus, device : 0..(NumDevices - 1),
              func : 0..(NumFunctions - 1)]

CONSTANT Nowhere   \* no location: m_valid is false, or not initialised

ASSUME NowhereAssumption == Nowhere \notin Locations

(* What pciConfigReadWord and pciConfigWriteWord write to port CF8, without *)
(* its bit 31, which is 1.                                                 *)
ConfigAddress(l, offset) ==
  l.bus * 2^16 + l.device * 2^11 + l.func * 2^8 + (offset - (offset % 4))

(* The function whose configuration space an address names.                *)
Selects(address) == [bus |-> (address \div 2^16) % 256, device |-> (address \div 2^11) % 32,
                     func |-> (address \div 2^8) % 8]

VARIABLES
  present,       \* the HD audio functions there are
  phase,         \* "search", "command" or "done"
  start,         \* the arguments of findHDAudioDevice
  at,            \* its loop counters
  audioDevice,   \* audioDevice in efi_init
  commanded      \* the function whose command register was written

vars == <<present, phase, start, at, audioDevice, commanded>>

Init == /\ present \in {s \in SUBSET Locations : Cardinality(s) <= MaxPresent}
        /\ phase = "search"
        /\ start = [bus |-> 0, device |-> 0, func |-> 0]
        /\ at = start
        /\ audioDevice = Nowhere
        /\ commanded = Nowhere

(* Faulty: the function loop runs to its limit.                            *)
InFunctionsInclusive == at.func <= NumFunctions

(* The conditions of the three loops.                                      *)
InFunctions == at.func < NumFunctions

InDevices == at.device < NumDevices

InBuses == at.bus # LastBus

Probing == phase = "search" /\ InBuses /\ InDevices /\ InFunctions

(* The class read at offset 8 is that of an HD audio function.             *)
FindsAudio == Selects(ConfigAddress(at, 8)) \in present

(* A function that is not an HD audio device.                              *)
ProbeOther == /\ Probing
              /\ ~FindsAudio
              /\ at' = [at EXCEPT !.func = @ + 1]
              /\ UNCHANGED <<present, phase, start, audioDevice, commanded>>

(* Faulty: the search goes on at the function found.                       *)
ResumeAtFound(found) == found

(* Faulty: the search goes on at the next device.                          *)
ResumeAtDevice(found) == [found EXCEPT !.func = 0, !.device = @ + 1]

ResumeAt(found) == [found EXCEPT !.func = @ + 1]

(* The search returns what it found, and efi_init starts the next one.     *)
ProbeFound == /\ Probing
              /\ FindsAudio
              /\ audioDevice' = at
              /\ start' = ResumeAt(at)
              /\ at' = start'
              /\ UNCHANGED <<present, phase, commanded>>

NextDevice == /\ phase = "search" /\ InBuses /\ InDevices /\ ~InFunctions
              /\ at' = [at EXCEPT !.device = @ + 1, !.func = start.func]
              /\ UNCHANGED <<present, phase, start, audioDevice, commanded>>

NextBus == /\ phase = "search" /\ InBuses /\ ~InDevices
           /\ at' = [at EXCEPT !.bus = @ + 1, !.device = start.device,
                               !.func = start.func]
           /\ UNCHANGED <<present, phase, start, audioDevice, commanded>>

(* Faulty: efi_init keeps the result of the last search, which is invalid. *)
SearchEndsInvalid == /\ phase = "search" /\ ~InBuses
                     /\ phase' = "command"
                     /\ audioDevice' = Nowhere
                     /\ UNCHANGED <<present, start, at, commanded>>

(* A search that finds nothing ends the loop of efi_init.                  *)
SearchEnds == /\ phase = "search" /\ ~InBuses
              /\ phase' = "command"
              /\ UNCHANGED <<present, start, at, audioDevice, commanded>>

(* setPCICommandReg of audioDevice. If nothing was found its bus, device    *)
(* and function were never written, and any function is commanded.          *)
SetCommand == /\ phase = "command"
              /\ phase' = "done"
              /\ \E l \in IF audioDevice = Nowhere THEN Locations ELSE {audioDevice} :
                   commanded' = Selects(ConfigAddress(l, 4))
              /\ UNCHANGED <<present, start, at, audioDevice>>

Finished == phase = "done" /\ UNCHANGED vars

Step == \/ ProbeOther \/ ProbeFound \/ NextDevice \/ NextBus
        \/ SearchEnds \/ SetCommand

Next == Step \/ Finished

Spec == Init /\ [][Next]_vars /\ WF_vars(Step)
-----------------------------------------------------------------------------
(* The counters are uint8_t: each stays within one of its limit.           *)
TypeOK == /\ phase \in {"search", "command", "done"}
          /\ start.bus \in 0..(LastBus - 1) /\ at.bus \in 0..LastBus
          /\ start.device \in 0..(NumDevices - 1) /\ at.device \in 0..NumDevices
          /\ start.func \in 0..NumFunctions /\ at.func \in 0..NumFunctions
          /\ audioDevice \in Locations \cup {Nowhere}
          /\ commanded \in Locations \cup {Nowhere}

Scanned(s) == {p \in s : p.bus < LastBus}

(* q is in the part of the buses that a search after p probes.             *)
Reachable(p, q) == /\ q.bus >= p.bus
                   /\ q.device >= p.device
                   /\ q.func > p.func

(* When the searches are over and anything was to be found, the function   *)
(* that is used is an HD audio function, and no HD audio function is in    *)
(* the part that a further search from it would probe. One with a smaller  *)
(* device or function number on a later bus may have been passed over.     *)
UsedIsLast ==
  phase # "search" /\ Scanned(present) # {} =>
    /\ audioDevice \in Scanned(present)
    /\ phase = "done" => commanded = audioDevice
    /\ \A q \in Scanned(present) : ~Reachable(audioDevice, q)

(* No function is found twice: the function number grows with every find,  *)
(* and neither the device nor the bus goes back.                           *)
FindsAdvance ==
  [][audioDevice # Nowhere /\ audioDevice' # audioDevice =>
       Reachable(audioDevice, audioDevice')]_vars

(* The searches end.                                                       *)
SearchesEnd == <>(phase = "done")
=============================================================================
