--------------------------- MODULE EfiInitProofs ---------------------------
(***************************************************************************)
(* Proofs about EfiInit: the search of PciScan, for every size of the      *)
(* buses and any number of HD audio functions, and the choice of TextModes *)
(* for every firmware. The search is proved of PciScan's steps; a step of  *)
(* EfiInit is one of them or leaves the search alone.                      *)
(***************************************************************************)
EXTENDS EfiInit, TLAPS

(* The fields of an address have 8, 5 and 3 bits.                          *)
Addressable == [bus : 0..(2^8 - 1), device : 0..(2^5 - 1), func : 0..(2^3 - 1)]

Offsets == 0..(2^8 - 1)

(* The powers of two in what follows.                                      *)
LEMMA Powers == 2^16 = 65536 /\ 2^11 = 2048 /\ 2^8 = 256 /\ 2^5 = 32 /\ 2^3 = 8
  OBVIOUS

(* Three fields and what is left of the offset, in one number.             *)
Address(b, d, f, low) == b * 65536 + d * 2048 + f * 256 + low

(* What is put together is taken apart.                                    *)
LEMMA FieldsOfAddress ==
  ASSUME NEW b \in Nat, NEW d \in Nat, NEW f \in Nat, NEW low \in Nat,
         b < 256, d < 32, f < 8, low < 256
  PROVE  Selects(Address(b, d, f, low)) = [bus |-> b, device |-> d, func |-> f]
<1> DEFINE address == b * 65536 + d * 2048 + f * 256 + low
<1>1. address \div 65536 = b
  OBVIOUS
<1>2. address \div 2048 = 32 * b + d
  OBVIOUS
<1>3. address \div 256 = 8 * (32 * b + d) + f
  OBVIOUS
<1> QED
  BY <1>1, <1>2, <1>3, Powers DEF Selects, Address

(* A configuration address selects the function it was formed of.          *)
LEMMA SelectsAddressed ==
  ASSUME NEW l \in Addressable, NEW offset \in Offsets
  PROVE  Selects(ConfigAddress(l, offset)) = l
<1>1. PICK b \in Nat, d \in Nat, f \in Nat :
        /\ l = [bus |-> b, device |-> d, func |-> f]
        /\ b < 256 /\ d < 32 /\ f < 8
  <2>1. /\ l.bus \in Nat /\ l.bus < 256
        /\ l.device \in Nat /\ l.device < 32
        /\ l.func \in Nat /\ l.func < 8
    BY DEF Addressable
  <2>2. l = [bus |-> l.bus, device |-> l.device, func |-> l.func]
    BY DEF Addressable
  <2> QED
    BY <2>1, <2>2
<1>2. PICK low \in Nat : low = offset - (offset % 4) /\ low < 256
  BY DEF Offsets
<1>3. ConfigAddress(l, offset) = Address(b, d, f, low)
  BY <1>1, <1>2, Powers DEF ConfigAddress, Address
<1>4. b < 256 /\ d < 32 /\ f < 8 /\ low < 256
  BY <1>1, <1>2
<1>5. Selects(Address(b, d, f, low)) = [bus |-> b, device |-> d, func |-> f]
  BY <1>4, FieldsOfAddress
<1> QED
  BY <1>1, <1>3, <1>5

(* The limits of the loops keep locations within the fields.               *)
LEMMA SelectsLocation ==
  ASSUME NEW l \in Locations, NEW offset \in Offsets
  PROVE  Selects(ConfigAddress(l, offset)) = l
<1>1. l \in Addressable
  BY LimitsAssumption DEF Locations, Addressable
<1> QED
  BY <1>1, SelectsAddressed

(* The class and the command register.                                     *)
LEMMA OffsetsOfRegisters == 8 \in Offsets /\ 4 \in Offsets
  BY DEF Offsets
-----------------------------------------------------------------------------
(* The loop counters. *)
Counters == [bus : 0..LastBus, device : 0..NumDevices, func : 0..NumFunctions]

(* The search has come past q.                                             *)
Passed(q) == \/ q.bus < at.bus
             \/ q.bus = at.bus /\ q.device < at.device
             \/ q.bus = at.bus /\ q.device = at.device /\ q.func < at.func

(* q is in the part of the buses that the search is to probe.              *)
InPart(q) == q.bus >= start.bus /\ q.device >= start.device /\ q.func >= start.func

CountersInv ==
  /\ present \subseteq Locations
  /\ at \in Counters /\ start \in Counters
  /\ start.bus < LastBus /\ start.device < NumDevices
  /\ InPart(at)

(* Where a search starts says what was found before it.                    *)
StartInv ==
  IF audioDevice = Nowhere
  THEN start = [bus |-> 0, device |-> 0, func |-> 0]
  ELSE audioDevice \in Scanned(present) /\ start = ResumeAt(audioDevice)

(* Nothing of the part is behind the search: what it passed would have     *)
(* been found, and it would have started anew from there.                  *)
PartInv == \A q \in Scanned(present) : InPart(q) => ~Passed(q)

PhaseInv ==
  /\ phase \in {"search", "command", "done"}
  /\ phase # "search" => at.bus = LastBus
  /\ IF phase = "done" THEN /\ commanded \in Locations
                            /\ audioDevice # Nowhere => commanded = audioDevice
     ELSE commanded = Nowhere

SearchInv == CountersInv /\ StartInv /\ PartInv /\ PhaseInv

(* Within the loops the counters are a location.                           *)
LEMMA ProbingLocation ==
  ASSUME CountersInv, Probing
  PROVE  at \in Scanned(Locations) /\ Selects(ConfigAddress(at, 8)) = at
<1>1. at \in Locations /\ at.bus < LastBus
  BY LimitsAssumption
  DEF CountersInv, Counters, Locations, Probing, InBuses, InDevices, InFunctions
<1>2. Selects(ConfigAddress(at, 8)) = at
  BY <1>1, OffsetsOfRegisters, SelectsLocation
<1> QED
  BY <1>1, <1>2 DEF Scanned

(* The first search starts where all buses are before it.                  *)
LEMMA SearchInit == Init => SearchInv
<1> SUFFICES ASSUME Init PROVE SearchInv
  OBVIOUS
<1>1. /\ present \subseteq Locations
      /\ start = [bus |-> 0, device |-> 0, func |-> 0]
      /\ at = start
  BY DEF Init
<1>2. start \in Counters
  BY <1>1, LimitsAssumption DEF Counters
<1>3. CountersInv
  BY <1>1, <1>2, LimitsAssumption DEF CountersInv, InPart
<1>4. PartInv
  BY <1>1 DEF PartInv, Passed, InPart, Scanned, Locations
<1> QED
  BY <1>1, <1>3, <1>4 DEF Init, SearchInv, StartInv, PhaseInv

(* A function that is passed is not an HD audio function.                   *)
LEMMA OtherProbed == SearchInv /\ ProbeOther => SearchInv'
<1> SUFFICES ASSUME SearchInv, ProbeOther PROVE SearchInv'
  OBVIOUS
<1>1. /\ at \in Scanned(Locations) /\ Selects(ConfigAddress(at, 8)) = at
      /\ CountersInv /\ PartInv
  BY ProbingLocation DEF SearchInv, ProbeOther
<1>2. at \notin present
  BY <1>1 DEF ProbeOther, FindsAudio
<1>3. /\ at' = [at EXCEPT !.func = @ + 1]
      /\ UNCHANGED <<present, phase, start, audioDevice, commanded>>
      /\ phase = "search" /\ at.func < NumFunctions
  BY DEF ProbeOther, Probing, InFunctions
<1>4. CountersInv'
  BY <1>1, <1>3, LimitsAssumption DEF CountersInv, Counters, InPart
<1>5. PartInv'
  <2> SUFFICES ASSUME NEW q \in Scanned(present), InPart(q), Passed(q)'
               PROVE  FALSE
    BY <1>3 DEF PartInv, InPart, Scanned
  <2>1. q \in Locations /\ ~Passed(q) /\ q # at
    BY <1>1, <1>2 DEF PartInv, CountersInv, Scanned
  <2>2. q.bus # at.bus \/ q.device # at.device \/ q.func # at.func
    BY <1>1, <2>1 DEF Scanned, Locations
  <2> QED
    BY <1>1, <1>3, <2>1, <2>2, LimitsAssumption
    DEF Passed, CountersInv, Counters, Locations
<1> QED
  BY <1>3, <1>4, <1>5 DEF SearchInv, StartInv, PhaseInv, Scanned

(* The next search starts behind the function found.                        *)
LEMMA FoundProbed == SearchInv /\ ProbeFound => SearchInv'
<1> SUFFICES ASSUME SearchInv, ProbeFound PROVE SearchInv'
  OBVIOUS
<1>1. /\ at \in Scanned(Locations) /\ Selects(ConfigAddress(at, 8)) = at
      /\ CountersInv
  BY ProbingLocation DEF SearchInv, ProbeFound
<1>2. at \in Scanned(present)
  BY <1>1 DEF ProbeFound, FindsAudio, Scanned
<1>3. /\ audioDevice' = at
      /\ start' = [at EXCEPT !.func = @ + 1]
      /\ at' = start'
      /\ UNCHANGED <<present, phase, commanded>>
      /\ phase = "search"
  BY DEF ProbeFound, ResumeAt, Probing
<1>4. CountersInv'
  BY <1>1, <1>3, LimitsAssumption DEF CountersInv, Counters, InPart, Scanned, Locations
<1>5. StartInv'
  <2>1. audioDevice' # Nowhere
    BY <1>1, <1>3, NowhereAssumption DEF Scanned
  <2> QED
    BY <1>2, <1>3, <2>1 DEF StartInv, ResumeAt, Scanned
<1>6. PartInv'
  BY <1>3, <1>4, LimitsAssumption
  DEF PartInv, Passed, InPart, CountersInv, Counters, Scanned, Locations
<1> QED
  BY <1>3, <1>4, <1>5, <1>6 DEF SearchInv, PhaseInv

(* A device is left when its functions have been passed.                   *)
LEMMA DeviceBegun == SearchInv /\ NextDevice => SearchInv'
<1> SUFFICES ASSUME SearchInv, NextDevice PROVE SearchInv'
  OBVIOUS
<1>1. CountersInv /\ PartInv
  BY DEF SearchInv
<1>2. /\ at' = [at EXCEPT !.device = @ + 1, !.func = start.func]
      /\ UNCHANGED <<present, phase, start, audioDevice, commanded>>
      /\ phase = "search" /\ at.device < NumDevices /\ ~(at.func < NumFunctions)
  BY DEF NextDevice, InDevices, InFunctions
<1>3. CountersInv'
  <2>1. at' = [bus |-> at.bus, device |-> at.device + 1, func |-> start.func]
    BY <1>1, <1>2 DEF CountersInv, Counters
  <2>2. at' \in Counters
    BY <1>1, <1>2, <2>1, LimitsAssumption DEF CountersInv, Counters
  <2> QED
    BY <1>1, <1>2, <2>1, <2>2 DEF CountersInv, Counters, InPart
<1>4. PartInv'
  <2> SUFFICES ASSUME NEW q \in Scanned(present), InPart(q), Passed(q)'
               PROVE  FALSE
    BY <1>2 DEF PartInv, InPart, Scanned
  <2>1. q \in Locations /\ ~Passed(q)
    BY <1>1 DEF PartInv, CountersInv, Scanned
  <2> QED
    BY <1>1, <1>2, <2>1, LimitsAssumption
    DEF Passed, InPart, CountersInv, Counters, Locations
<1> QED
  BY <1>2, <1>3, <1>4 DEF SearchInv, StartInv, PhaseInv, Scanned

(* A bus is left when its devices have been passed.                        *)
LEMMA BusBegun == SearchInv /\ NextBus => SearchInv'
<1> SUFFICES ASSUME SearchInv, NextBus PROVE SearchInv'
  OBVIOUS
<1>1. CountersInv /\ PartInv
  BY DEF SearchInv
<1>2. /\ at' = [at EXCEPT !.bus = @ + 1, !.device = start.device, !.func = start.func]
      /\ UNCHANGED <<present, phase, start, audioDevice, commanded>>
      /\ phase = "search" /\ at.bus # LastBus /\ ~(at.device < NumDevices)
  BY DEF NextBus, InBuses, InDevices
<1>3. CountersInv'
  <2>1. at' = [bus |-> at.bus + 1, device |-> start.device, func |-> start.func]
    BY <1>1, <1>2 DEF CountersInv, Counters
  <2>2. at' \in Counters
    BY <1>1, <1>2, <2>1, LimitsAssumption DEF CountersInv, Counters
  <2> QED
    BY <1>1, <1>2, <2>1, <2>2 DEF CountersInv, Counters, InPart
<1>4. PartInv'
  <2> SUFFICES ASSUME NEW q \in Scanned(present), InPart(q), Passed(q)'
               PROVE  FALSE
    BY <1>2 DEF PartInv, InPart, Scanned
  <2>1. q \in Locations /\ ~Passed(q)
    BY <1>1 DEF PartInv, CountersInv, Scanned
  <2> QED
    BY <1>1, <1>2, <2>1, LimitsAssumption
    DEF Passed, InPart, CountersInv, Counters, Locations
<1> QED
  BY <1>2, <1>3, <1>4 DEF SearchInv, StartInv, PhaseInv, Scanned

(* The last search ends behind all the buses.                              *)
LEMMA SearchEnded == SearchInv /\ SearchEnds => SearchInv'
<1> SUFFICES ASSUME SearchInv, SearchEnds PROVE SearchInv'
  OBVIOUS
<1>1. /\ phase = "search" /\ phase' = "command" /\ at.bus = LastBus
      /\ UNCHANGED <<present, start, at, audioDevice, commanded>>
  BY DEF SearchEnds, InBuses
<1> QED
  BY <1>1 DEF SearchInv, CountersInv, StartInv, PartInv, PhaseInv, InPart, Passed, Scanned

(* The command register written is the one of the function found last.     *)
LEMMA CommandSet == SearchInv /\ SetCommand => SearchInv'
<1> SUFFICES ASSUME SearchInv, SetCommand PROVE SearchInv'
  OBVIOUS
<1>1. /\ phase = "command" /\ phase' = "done"
      /\ UNCHANGED <<present, start, at, audioDevice>>
  BY DEF SetCommand
<1>2. commanded' \in Locations /\ (audioDevice # Nowhere => commanded' = audioDevice)
  <2>1. PICK l \in (IF audioDevice = Nowhere THEN Locations ELSE {audioDevice}) :
          commanded' = Selects(ConfigAddress(l, 4))
    BY DEF SetCommand
  <2>2. l \in Locations
    BY <2>1 DEF SearchInv, StartInv, CountersInv, Scanned
  <2>3. commanded' = l
    BY <2>1, <2>2, OffsetsOfRegisters, SelectsLocation
  <2> QED
    BY <2>1, <2>2, <2>3
<1> QED
  BY <1>1, <1>2 DEF SearchInv, CountersInv, StartInv, PartInv, PhaseInv, InPart, Passed, Scanned

(* Every step of the search preserves the invariant.                       *)
LEMMA SearchStep == SearchInv /\ [Step]_vars => SearchInv'
<1> SUFFICES ASSUME SearchInv, [Step]_vars PROVE SearchInv'
  OBVIOUS
<1>1. CASE Step
  BY <1>1, OtherProbed, FoundProbed, DeviceBegun, BusBegun, SearchEnded, CommandSet DEF Step
<1>2. CASE UNCHANGED vars
  BY <1>2 DEF vars, SearchInv, CountersInv, StartInv, PartInv, PhaseInv, InPart, Passed, Scanned
<1> QED
  BY <1>1, <1>2

(* What efi_init and its commands do is a step of the search or none.      *)
LEMMA EfiSearches == [EfiNext]_<<vars, textVars>> => [Step]_vars
  BY DEF EfiNext, Program, Choosing, Searching, Listing, Commanding, AllCommandsGiven, vars

(* The invariant holds in every behaviour of efi_init.                     *)
LEMMA SearchInvariance == EfiSpec => []SearchInv
<1>1. EfiInit => SearchInv
  BY SearchInit DEF EfiInit
<1>2. SearchInv /\ [EfiNext]_<<vars, textVars>> => SearchInv'
  BY SearchStep, EfiSearches
<1> QED
  BY <1>1, <1>2, PTL DEF EfiSpec

(* No counter of findHDAudioDevice wraps, and what is found and commanded   *)
(* is a location, for buses of every size.                                  *)
THEOREM SearchTypeCorrect == EfiSpec => []TypeOK
<1>1. SearchInv => TypeOK
  <2> SUFFICES ASSUME SearchInv PROVE TypeOK
    OBVIOUS
  <2>1. audioDevice \in Locations \cup {Nowhere}
    BY DEF SearchInv, StartInv, CountersInv, Scanned
  <2> QED
    BY <2>1, LimitsAssumption DEF SearchInv, CountersInv, Counters, PhaseInv, TypeOK
<1> QED
  BY SearchInvariance, <1>1, PTL

(* The function efi_init uses is an HD audio function if there is one, gets *)
(* the command register, and no further search from it would find another,  *)
(* wherever and however many HD audio functions there are.                  *)
THEOREM SearchUsesLast == EfiSpec => []UsedIsLast
<1>1. SearchInv => UsedIsLast
  <2> SUFFICES ASSUME SearchInv, phase # "search", Scanned(present) # {}
               PROVE  /\ audioDevice \in Scanned(present)
                      /\ phase = "done" => commanded = audioDevice
                      /\ \A q \in Scanned(present) : ~Reachable(audioDevice, q)
    BY DEF UsedIsLast
  <2>1. \A q \in Scanned(present) : q \in Locations /\ q.bus < LastBus
    BY DEF SearchInv, CountersInv, Scanned
  <2>2. \A q \in Scanned(present) : ~InPart(q)
    BY <2>1, LimitsAssumption
    DEF SearchInv, CountersInv, Counters, PartInv, PhaseInv, Passed, Locations
  <2>3. audioDevice # Nowhere
    BY <2>1, <2>2 DEF SearchInv, StartInv, InPart, Locations
  <2>4. audioDevice \in Scanned(present) /\ start = ResumeAt(audioDevice)
    BY <2>3 DEF SearchInv, StartInv
  <2>5. ASSUME NEW q \in Scanned(present) PROVE ~Reachable(audioDevice, q)
    BY <2>1, <2>2, <2>4 DEF ResumeAt, InPart, Reachable, Locations
  <2> QED
    BY <2>3, <2>4, <2>5 DEF SearchInv, PhaseInv
<1> QED
  BY SearchInvariance, <1>1, PTL

(* Every find is past the one before it, in the function number too.        *)
THEOREM SearchAdvances == EfiSpec => FindsAdvance
<1>1. SearchInv /\ [Step]_vars =>
        [audioDevice # Nowhere /\ audioDevice' # audioDevice =>
           Reachable(audioDevice, audioDevice')]_vars
  <2> SUFFICES ASSUME SearchInv, Step, audioDevice # Nowhere, audioDevice' # audioDevice
               PROVE  Reachable(audioDevice, audioDevice')
    OBVIOUS
  <2>1. audioDevice' = at
    BY DEF Step, ProbeOther, ProbeFound, NextDevice, NextBus, SearchEnds, SetCommand
  <2>2. /\ audioDevice \in Locations
        /\ start = [audioDevice EXCEPT !.func = @ + 1]
    BY DEF SearchInv, StartInv, CountersInv, Scanned, ResumeAt
  <2> QED
    BY <2>1, <2>2 DEF SearchInv, CountersInv, Counters, InPart, Reachable, Locations
<1> QED
  BY SearchInvariance, <1>1, EfiSearches, PTL DEF EfiSpec, FindsAdvance
-----------------------------------------------------------------------------
(* Mode b is the first of those in S with the most rows.                   *)
FirstBest(S, b) == /\ b \in S
                   /\ \A m \in S : /\ table[m].rows <= table[b].rows
                                   /\ m < b => table[m].rows < table[b].rows

(* best describes the mode chosen of those in S.                           *)
BestOf(S) == IF S = {} THEN best.rows = 0
             ELSE /\ FirstBest(S, best.mode)
                  /\ best.cols = table[best.mode].cols
                  /\ best.rows = table[best.mode].rows

(* The modes that were looked at are the first ones.                       *)
LookedAt == 0..(mode - 1)

TextTypeInv == /\ table \in Tables
               /\ textPc \in {"choose", "set", "ready", "list"}
               /\ mode \in Nat /\ textCommands \in Nat
               /\ best = [mode |-> best.mode, cols |-> best.cols, rows |-> best.rows]

LookInv == textPc \in {"choose", "list"} => \A m \in LookedAt : Exists(m)

BestInv == IF textPc = "choose" THEN BestOf(LookedAt) ELSE BestOf(FirstModes)

ListInv == CASE textPc \in {"choose", "set"} -> listed = {}
             [] textPc = "ready" -> listed = {} \/ listed = FirstModes
             [] textPc = "list" -> listed = LookedAt

ScreenInv == /\ textPc \in {"choose", "set"} => textCommands = 0
             /\ textPc = "list" => textCommands # 0
             /\ textPc = "ready" /\ ~refused /\ textCommands = 0 => screen = best.mode

TextInv == TextTypeInv /\ LookInv /\ BestInv /\ ListInv /\ ScreenInv

(* A mode that can be queried has a size, with at least one row.           *)
LEMMA SizeOfMode ==
  ASSUME table \in Tables, NEW m, Exists(m)
  PROVE  /\ m \in Nat
         /\ table[m] \in [cols : Nat, rows : Nat \ {0}]
<1>1. DOMAIN table \subseteq Nat /\ table \in [DOMAIN table -> Size]
  BY TablesAssumption
<1> QED
  BY <1>1 DEF Exists, Size

(* When a mode cannot be queried, those looked at are all the first ones.  *)
LEMMA LookingDone ==
  ASSUME table \in Tables, mode \in Nat, ~Exists(mode), \A m \in LookedAt : Exists(m)
  PROVE  LookedAt = FirstModes
<1>1. DOMAIN table \subseteq Nat
  BY TablesAssumption
<1>2. ASSUME NEW m \in LookedAt PROVE m \in FirstModes
  <2>1. m \in DOMAIN table
    BY DEF Exists
  <2>2. \A k \in 0..m : k \in LookedAt
    BY DEF LookedAt
  <2> QED
    BY <2>1, <2>2 DEF FirstModes
<1>3. ASSUME NEW m \in FirstModes PROVE m \in LookedAt
  <2>1. m \in Nat /\ \A k \in 0..m : Exists(k)
    BY <1>1 DEF FirstModes
  <2>2. mode \notin 0..m
    BY <2>1
  <2> QED
    BY <2>1, <2>2 DEF LookedAt
<1> QED
  BY <1>2, <1>3

(* The best of no mode has no rows.                                        *)
LEMMA TextInvInit == TextInit => TextInv
<1> SUFFICES ASSUME TextInit PROVE TextInv
  OBVIOUS
<1>1. LookedAt = {}
  BY DEF TextInit, LookedAt
<1> QED
  BY <1>1 DEF TextInit, TextInv, TextTypeInv, LookInv, BestInv, BestOf, ListInv, ScreenInv

(* A mode takes the place of the best if it has more rows than it.         *)
LEMMA ModeConsidered == TextInv /\ ConsiderMode => TextInv'
<1> SUFFICES ASSUME TextInv, ConsiderMode PROVE TextInv'
  OBVIOUS
<1>1. /\ textPc = "choose" /\ Exists(mode) /\ mode' = mode + 1
      /\ best' = IF table[mode].rows > best.rows
                 THEN [mode |-> mode, cols |-> table[mode].cols, rows |-> table[mode].rows]
                 ELSE best
      /\ UNCHANGED <<table, screen, textPc, listed, refused, textCommands>>
  BY DEF ConsiderMode, NextMode, IsBetter
<1>2. /\ table \in Tables /\ mode \in Nat /\ BestOf(LookedAt)
      /\ \A m \in LookedAt : Exists(m)
  BY <1>1 DEF TextInv, TextTypeInv, LookInv, BestInv
<1>3. /\ \A m \in LookedAt \cup {mode} : /\ Exists(m) /\ m \in Nat
                                         /\ table[m].rows \in Nat \ {0}
      /\ \A m \in LookedAt : m < mode
  BY <1>1, <1>2, SizeOfMode DEF LookedAt
<1>4. LookedAt' = LookedAt \cup {mode}
  BY <1>1, <1>2 DEF LookedAt
<1>5. BestOf(LookedAt)'
  <2>1. CASE table[mode].rows > best.rows
    <3>1. best'.mode = mode /\ best'.cols = table[mode].cols /\ best'.rows = table[mode].rows
      BY <1>1, <2>1
    <3>2. \A m \in LookedAt : table[m].rows < table[mode].rows
      BY <1>2, <1>3, <2>1 DEF BestOf, FirstBest
    <3> QED
      BY <1>1, <1>3, <1>4, <3>1, <3>2 DEF BestOf, FirstBest
  <2>2. CASE ~(table[mode].rows > best.rows)
    <3>1. LookedAt # {}
      BY <1>2, <1>3, <2>2 DEF BestOf
    <3>2. best.mode \in LookedAt /\ best' = best /\ table[mode].rows <= table[best.mode].rows
      BY <1>1, <1>2, <1>3, <2>2, <3>1 DEF BestOf, FirstBest
    <3> QED
      BY <1>1, <1>2, <1>3, <1>4, <3>1, <3>2 DEF BestOf, FirstBest
  <2> QED
    BY <2>1, <2>2
<1> QED
  BY <1>1, <1>2, <1>3, <1>4, <1>5
  DEF TextInv, TextTypeInv, LookInv, BestInv, ListInv, ScreenInv, Exists

(* The modes looked at are the first ones when there are no more.          *)
LEMMA ModesEnded == TextInv /\ NoMoreModes => TextInv'
<1> SUFFICES ASSUME TextInv, NoMoreModes PROVE TextInv'
  OBVIOUS
<1>1. /\ textPc = "choose" /\ textPc' = "set" /\ ~Exists(mode)
      /\ UNCHANGED <<table, screen, mode, best, listed, refused, textCommands>>
  BY DEF NoMoreModes
<1>2. table \in Tables /\ mode \in Nat /\ \A m \in LookedAt : Exists(m)
  BY <1>1 DEF TextInv, TextTypeInv, LookInv
<1>3. LookedAt = FirstModes
  BY <1>1, <1>2, LookingDone
<1>4. BestOf(FirstModes)'
  BY <1>1, <1>3 DEF TextInv, BestInv, BestOf, FirstBest, FirstModes, Exists
<1> QED
  BY <1>1, <1>4 DEF TextInv, TextTypeInv, LookInv, BestInv, ListInv, ScreenInv

(* What was chosen and listed does not depend on the screen.               *)
LEMMA SameModes ==
  ASSUME UNCHANGED <<table, best>>
  PROVE  FirstModes' = FirstModes /\ (BestOf(FirstModes))' = BestOf(FirstModes)
  BY DEF FirstModes, Exists, BestOf, FirstBest

(* The screen has the best mode, or the firmware refused it.               *)
LEMMA BestModeSet == TextInv /\ SetBestMode => TextInv'
<1> SUFFICES ASSUME TextInv, SetBestMode PROVE TextInv'
  OBVIOUS
<1>1. /\ textPc = "set" /\ textPc' = "ready" /\ refused' = (screen' # best.mode)
      /\ UNCHANGED <<table, mode, best, listed, textCommands>>
  BY DEF SetBestMode
<1> QED
  BY <1>1, SameModes DEF TextInv, TextTypeInv, LookInv, BestInv, ListInv, ScreenInv

(* showtext begins with no mode listed.                                    *)
LEMMA ListBegun == TextInv /\ cmdShowText => TextInv'
<1> SUFFICES ASSUME TextInv, cmdShowText PROVE TextInv'
  OBVIOUS
<1>1. /\ textPc = "ready" /\ textPc' = "list" /\ mode' = 0 /\ listed' = {}
      /\ textCommands' = textCommands + 1
      /\ UNCHANGED <<table, screen, best, refused>>
  BY DEF cmdShowText, TextReady
<1>2. LookedAt' = {}
  BY <1>1 DEF LookedAt
<1>3. textCommands' # 0 /\ textCommands' \in Nat
  BY <1>1 DEF TextInv, TextTypeInv
<1> QED
  BY <1>1, <1>2, <1>3, SameModes
  DEF TextInv, TextTypeInv, LookInv, BestInv, ListInv, ScreenInv

(* showtext lists the modes it has looked at.                              *)
LEMMA ModeListed == TextInv /\ ListMode => TextInv'
<1> SUFFICES ASSUME TextInv, ListMode PROVE TextInv'
  OBVIOUS
<1>1. /\ textPc = "list" /\ Exists(mode) /\ mode' = mode + 1
      /\ listed' = listed \cup {mode}
      /\ UNCHANGED <<table, screen, textPc, best, refused, textCommands>>
  BY DEF ListMode, NextMode
<1>2. mode \in Nat /\ listed = LookedAt /\ \A m \in LookedAt : Exists(m)
  BY <1>1 DEF TextInv, TextTypeInv, ListInv, LookInv
<1>3. LookedAt' = LookedAt \cup {mode}
  BY <1>1, <1>2 DEF LookedAt
<1>4. LookInv' /\ ListInv'
  BY <1>1, <1>2, <1>3 DEF LookInv, ListInv, Exists
<1> QED
  BY <1>1, <1>2, <1>4, SameModes DEF TextInv, TextTypeInv, BestInv, ScreenInv

(* When showtext ends it has listed the first modes.                       *)
LEMMA ListEnded == TextInv /\ ListEnds => TextInv'
<1> SUFFICES ASSUME TextInv, ListEnds PROVE TextInv'
  OBVIOUS
<1>1. /\ textPc = "list" /\ textPc' = "ready" /\ ~Exists(mode)
      /\ UNCHANGED <<table, screen, mode, best, listed, refused, textCommands>>
  BY DEF ListEnds
<1>2. /\ table \in Tables /\ mode \in Nat /\ listed = LookedAt
      /\ \A m \in LookedAt : Exists(m)
  BY <1>1 DEF TextInv, TextTypeInv, ListInv, LookInv
<1>3. listed = FirstModes
  BY <1>1, <1>2, LookingDone
<1> QED
  BY <1>1, <1>3, SameModes
  DEF TextInv, TextTypeInv, LookInv, BestInv, ListInv, ScreenInv

(* settextmode changes the screen and nothing else.                        *)
LEMMA ModeSet == \A m : TextInv /\ cmdSetTextMode(m) => TextInv'
<1> SUFFICES ASSUME NEW m, TextInv, cmdSetTextMode(m) PROVE TextInv'
  OBVIOUS
<1>1. /\ textPc = "ready" /\ textCommands' = textCommands + 1
      /\ UNCHANGED <<table, textPc, mode, best, listed, refused>>
  BY DEF cmdSetTextMode, TextReady
<1>2. textCommands' # 0 /\ textCommands' \in Nat
  BY <1>1 DEF TextInv, TextTypeInv
<1> QED
  BY <1>1, <1>2, SameModes
  DEF TextInv, TextTypeInv, LookInv, BestInv, ListInv, ScreenInv

(* The invariant of the text modes holds in every behaviour of efi_init.    *)
LEMMA TextInvariance == EfiSpec => []TextInv
<1>1. EfiInit => TextInv
  BY TextInvInit DEF EfiInit
<1>2. TextInv /\ [EfiNext]_<<vars, textVars>> => TextInv'
  <2> SUFFICES ASSUME TextInv, [EfiNext]_<<vars, textVars>> PROVE TextInv'
    OBVIOUS
  <2>1. CASE ChooseMode
    BY <2>1, ModeConsidered, ModesEnded, BestModeSet DEF ChooseMode
  <2>2. CASE List
    BY <2>2, ModeListed, ListEnded DEF List
  <2>3. CASE TextCommand
    BY <2>3, ListBegun, ModeSet DEF TextCommand
  <2>4. CASE UNCHANGED textVars
    <3>1. LookedAt' = LookedAt /\ (BestOf(LookedAt))' = BestOf(LookedAt)
      BY <2>4 DEF textVars, LookedAt, BestOf, FirstBest
    <3> QED
      BY <2>4, <3>1, SameModes
      DEF textVars, TextInv, TextTypeInv, LookInv, BestInv, ListInv, ScreenInv, Exists
  <2> QED
    BY <2>1, <2>2, <2>3, <2>4
    DEF EfiNext, Program, Choosing, Searching, Listing, Commanding, AllCommandsGiven
<1> QED
  BY <1>1, <1>2, PTL DEF EfiSpec

(* The mode the program chooses has the most rows of the modes it could     *)
(* look at, is the first of them, is set unless the firmware refuses it,    *)
(* and is among those showtext lists: for every table of modes.             *)
THEOREM TextModeIsBest == EfiSpec => []BestChosen
<1>1. TextInv => BestChosen
  <2> SUFFICES ASSUME TextInv, textPc \in {"ready", "list"}, ~refused, FirstModes # {}
               PROVE  /\ best.mode \in FirstModes
                      /\ \A m \in FirstModes :
                           /\ table[m].rows <= table[best.mode].rows
                           /\ m < best.mode => table[m].rows < table[best.mode].rows
                      /\ textCommands = 0 =>
                           /\ screen = best.mode
                           /\ [cols |-> best.cols, rows |-> best.rows] = table[screen]
                      /\ textPc = "ready" /\ listed # {} => best.mode \in listed
    BY DEF BestChosen
  <2>1. BestOf(FirstModes)
    BY DEF TextInv, BestInv
  <2>2. FirstBest(FirstModes, best.mode)
    BY <2>1 DEF BestOf
  <2>3. ASSUME textCommands = 0
        PROVE  screen = best.mode /\ [cols |-> best.cols, rows |-> best.rows] = table[screen]
    <3>1. screen = best.mode
      BY <2>3 DEF TextInv, ScreenInv
    <3>2. table[screen] \in [cols : Nat, rows : Nat \ {0}]
      <4>1. Exists(screen)
        <5>1. DOMAIN table \subseteq Nat
          BY TablesAssumption DEF TextInv, TextTypeInv
        <5> QED
          BY <2>2, <3>1, <5>1 DEF FirstBest, FirstModes
      <4> QED
        BY <4>1, SizeOfMode DEF TextInv, TextTypeInv
    <3> QED
      BY <2>1, <3>1, <3>2 DEF BestOf
  <2> QED
    BY <2>2, <2>3 DEF FirstBest, TextInv, ListInv
<1> QED
  BY TextInvariance, <1>1, PTL
=============================================================================
