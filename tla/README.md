# TinyOS64 V2: a verification project

TLA+ models of TinyOS64 V2, TLC runs that check them on small instances, and
theorems that TLAPS proves for all instances. TinyOS64 V2 is a UEFI application
that finds an HD audio controller on the PCI bus, collects what its codec
offers, plays a buffer, and then runs a console.

All paths below are relative to the repository; `hdacodec.cpp` is
`src/hdacodec.cpp` there, and so on.

## The system

The program is one thread. It never takes an interrupt; every wait is a poll.
What runs beside it is hardware and firmware: the HD audio controller, the
codec behind it, the keyboard. `CMakeLists.txt` of this commit builds the
formatter, the PCI code, the allocator and `main.cpp`, and the part of
`efi_init` that uses the audio driver is disabled by `#if 0` (`main.cpp`
442-618). The models are of the code as it is written, that part included: it
is the program's own logic and the only caller of the driver.

| component | state | operations | talks to | what is hard | what makes it correct |
|---|---|---|---|---|---|
| PCI search (`pci.cpp`, `main.cpp` 443-456) | loop counters, the device found last | `findHDAudioDevice`, `setPCICommandReg` | configuration space | a search continues at the function found; its start values restart every inner loop; `uint8_t` counters; addresses packed into a word | no function is found twice, the search ends, the function used is one that was found |
| immediate commands (`hdacodec.cpp` 253-274) | ICS, ICW, IRR of the controller; a retry counter | `sendVerb`, `readVerbResponse` | the codec, through the controller | giving up leaves the verb in flight; a response does not say what it answers | a response is delivered once, and late by no more than the timeouts so far |
| widget database (`hdacodec.cpp` 276-588, 905-922) | `m_widgets` | `collectWidgetInformation`, `refreshWidget`, `unmute` | immediate commands | any of hundreds of exchanges may fail; collected before the controller is reset | complete scans are exact, lost responses leave defaults |
| controller and stream (`hdacodec.h` 185-233, 361-392, `hdacodec.cpp` 43-53, 141-159, 194-251) | three buffers, the stream descriptors, GCTL | constructor, `reset`, `disableInterrupt`, `turnOffCorbRirbDmapos`, `outputStream...`, `playSound`, `stopSound` | controller registers, memory read by DMA | writes during reset are lost; the controller reads memory while the program writes it | only the programmed stream runs, inside its buffer |
| output path (`hdacodec.cpp` 55-132, 161-182, `main.cpp` 499-566) | converter, pin and amplifiers of the codec | `setOutputNode`, `enablePinWidget`, `disablePinWidget`, `setIOWidgetFormat`, `getIOWidgetFormat`, `unmute` | immediate commands, database | a sequence of verbs, each of which can fail alone | the way is open if all were answered; what is reported is true unless an answer comes late |
| stream format (`hdacodec.cpp` 925-1054) | `m_value` | `set`, getters | codec and stream descriptor | packed fields, integer division | what is set is read back |
| console (`main.cpp` 559-617, `commands.cpp` 18-133, 939-963) | `consoleBuffer`, its index | the key loop, `execute`, `findNextParam`, `valueFromStr` | every command | a buffer that is never cleared, views that point nowhere | a command gets the words typed |
| formatter (`myprint.cpp`) | output buffer and index | `snprintf`, `format`, `toUDec`, `toHex` | text output | two's complement, truncation | prints the value, stays inside its limit |
| register file (`hdacodec.h` 240-359) | none (a table) | `getReg`, `readReg`, `writeReg` | controller registers | prefix match, entries that overlap, offsets fixed in the table and computed elsewhere | a name reaches a register of its own |
| text modes (`main.cpp` 158-186, `commands.cpp` 818-853) | firmware modes, the best so far | `setHighResolutionTextMode`, `showtext`, `settextmode` | firmware | the number of modes is not asked for, a mode may be missing among others, a status that is not looked at | the mode with the most rows is set, looking ends |
| widget dump (`hdacodec.cpp` 590-902) | none (reads the database) | `Widget::dump` and what it calls | the `node` command | it prints what was read and what was never read alike | nothing false is printed, but for what was never read |
| graphics (`main.cpp` 105-131, 188-252, `commands.cpp` 748-816) | frame buffer | `do_graphics`, `mandelbrot` (no caller), `showvideo` | firmware | | |
| allocator, C runtime, EFI declarations | none | | firmware | | |

The components meet in few places. Everything the driver knows of the codec
goes through `sendVerb` and `readVerbResponse`. The database is written by the
scan and `refresh` and read by `unmute`, `enablePinWidget`,
`setIOWidgetFormat` and the `node` command. The stream number 1 is written into the controller by
`outputStreamTurnOn` and into the converter by `setOutputNode`, the format word
into both. The console calls the commands. `efi_init` chooses the text mode,
searches the buses, opens the output path and enters the console, in this
order.

## Modules

`MC...` modules give the constants of the TLC runs their values.

* **VerbChannel** is what a caller of `sendVerb` and `readVerbResponse` may
  rely on: an exchange ends without a response, or with the response to a verb
  not answered before and at most as many verbs old as there were timeouts.
* **ImmediateCommand** is the implementation: one action per register access
  (`SendVerb` is the write of 2 to ICS, `LoadCommand` that of ICW,
  `TriggerCommand` that of 1 to ICS; `PollReady`, `PollAgain` and `GiveUp` are
  one pass of the loop, `ReadResponse` the read of IRR), against a controller
  (`Respond`, `Lose`) that may take its time or never answer. A verb and its
  response are named by the number of the call. `drained`, `timeouts` are
  history.
* **AmpExchange** extends ImmediateCommand with a caller and a codec: the
  amplifier reads of the scan and of `refresh`, and the unmute command, use
  whatever response was returned, late or not, and the codec executes a verb
  when it answers it, or executes it and its answer is lost. Every action is
  an action of ImmediateCommand together with what the caller or the codec
  does in it, so a verb is here what it is in the code: three register writes,
  polls and a read.
* **WidgetDatabase** is the scan, the refresh and the unmute command, one
  action per exchange; an exchange is atomic and returns the codec's answer or
  nothing. The codec is a constant, its amplifier settings a variable. A
  response with four entries of a connection list is a word (`EntryWord`) that
  the scan shifts (`Shifted`) and masks; a verb to an input amplifier carries
  the four low bits of its index (`Channel`), so the 17th is read as the first.
  Late answers are the subject of ImmediateCommand (`DrainedMatches` says when an
  answer is the codec's own) and of AmpExchange (what comes of them when it is
  not). Unmute is given numbers inside the database.
* **WidgetDump** is the `node` command: operators from a widget of the
  database to the set of the facts that are printed of it. `TrueOf` says what
  each fact means in terms of the codec's registers, with the rates and colour
  codes of the HD audio specification; where the code prints something else,
  `Misprinted` names it.
* **OutputPath** is the set-up of the codec by `efi_init` after the reset, one
  action per exchange, from any database that WidgetDatabase may leave. A verb
  without a response stays in `flight`: an exchange returns its own answer only
  if nothing is in flight, and otherwise the late answer to the oldest verb
  there, as `getCap` does of the identity verb. Between two exchanges a verb
  may leave the flight unanswered, executed or not (`Settle`). One exchange
  takes in the register accesses of ImmediateCommand; that no answer is
  delivered twice or out of order is from there. `outputAlone` and `pinAlone`
  are history: nothing was in flight when the function began.
* **StreamControl** is the controller's side of the boot, one action per
  register access, with a controller that enters and leaves reset by itself
  and fetches buffer descriptors while the program runs. Verbs are not in it.
* **StreamFormat** is the format word. Its operators are the bit fields of
  `set` and the getters.
* **PlayedFormat** composes StreamFormat with RegisterFile below: `efi_init`
  sets a format object, hands it to `outputStreamFormat`, and accesses the
  registers. A word that a codec returned is only read. One run checks both.
* **PciScan** is the search loops, one probe per step, and `efi_init`'s loop
  around them. A probe goes through the configuration address the code forms
  and the function the host bridge takes it to name.
* **TextModes** is `setHighResolutionTextMode` and the commands `showtext` and
  `settextmode`, one action per firmware call.
* **EfiInit** composes the two: `efi_init` from its start to the console, and
  the screen commands after it.
* **CommandLine** is what a user of the console may rely on: a sequence of
  characters that keys edit, and words between blanks.
* **Console** is the implementation: an array with an index, the terminator
  written before a command is run, and the scanning loops of `getCommand` and
  `findNextParam` on indices into that array.
* **PrintFormat** is `snprintf`: items of the format string put one by one,
  numbers by one action for each shift of `toUDec`.
* **RegisterFile** is the register table with its prefix match, against the
  same registers reached from a stream descriptor. The controller is a memory
  here, `written` the history of what each register was given by name; a word
  that may stand for several names leaves all of them in doubt. `sendVerb` puts
  the command word together here, byte by byte; `Executed` is what a codec
  takes out of it.
* **ExchangeProofs**, **WidgetDatabaseProofs**, **OutputPathProofs**,
  **StreamControlProofs**, **EfiInitProofs**, **RegisterFileProofs**,
  **ConsoleProofs** and **PrintFormatProofs** hold the proofs; those about
  StreamFormat are the last part of OutputPathProofs.

Definitions marked *Faulty* are plausible mistakes in the code a definition is
translated from. Each property is violated when one of them replaces the
definition that follows it; PROJECT.json pairs them.

## What the runs check

| run | question | answer |
|---|---|---|
| `immediate` | whose response does an exchange return, and what comes of a wrong one? | `LagBounded`, `DrainedMatches`, `ChannelSpec`: never one that was returned before, late by at most one verb per timeout, the own one if nothing was in flight. `ExchangeEnds`: every exchange ends. `CleanTaskExact`: a reading or an unmute that begins with nothing in flight and is answered does what it is for, whatever was lost before it. `NeverMutes`: an unmute never mutes, even with a gain taken from another verb's answer. |
| `widgets` | what does the database hold, and what is printed of it? | `ScanExact`: a scan without loss is exact. `TrueOrDefault`: with losses what it holds is true or the default. Of the input amplifiers these are the first sixteen, all that a verb can name. `RefreshRepairs`: a refresh without loss repairs the same input amplifiers and every output amplifier the database has as valid, which it never gives up. `UnmuteReaches0dB`: an unmute without loss leaves a valid output amplifier at its own step. `TasksEnd`. `NodeShows`: what `node` prints is true, or says that it is not known, or is one of three placeholders that only a lost response leaves (node 0 in a list, its first entry selected, volume 0), or is one of the misprints of the run `node_names`. |
| `widgets_refresh` | does a refresh update every amplifier? | no (violation): an output amplifier whose capabilities were lost once is passed over by every later refresh, `hdacodec.cpp` 918. |
| `node_names` | are the rates and colours printed those of the codec? | no (violation): 176400, 192000 and 384000 have a zero too many, `hdacodec.cpp` 648-656; the colours White and Other are three places before their codes, and 13 to 15 print a null pointer, `hdacodec.h` 88-93. |
| `output_path` | is the way open at the console's first prompt, and what may be claimed or broken on the way? | `PathOpen`: open if every verb was answered, as far as the database knows the nodes. `OutputOKTrue`: if `setOutputNode` began with nothing in flight, "SetOutputNode OK" is true and stays so, whatever later calls lose or get late; it says nothing of a call that began with a verb in flight, which may take that verb's late answer for the capabilities and return true at another volume (`hdacodec.cpp` 168). `PinKeepsVRef`: no write leaves the pin's input enabled; and none that belongs to a call which began with nothing in flight changes the voltage reference, even if it is executed after the call gave up. |
| `stream` | what runs after the boot? | `RunsProgrammed`, `BootPlays`: exactly the first output stream, programmed. `FetchesInBuffer`: the controller stays in the audio buffer. `BootEnds`: `reset` returns. (Its comment, `hdacodec.h` 375, says that it waits until the bit clears itself; the loop waits until it is set, as the hardware asks for.) |
| `stream_stop` | does `stopSound` stop the stream? | no (violation): `outputStreamTurnOff` writes to the input descriptor, `hdacodec.cpp` 143. |
| `format_22050` | is every rate read back as set? | no (violation): 22050 Hz is encoded and has a name but is read back as invalid, `hdacodec.cpp` 1012. |
| `pci` | which device is used, and which text mode? | `FindsAdvance`, `UsedIsLast`, `SearchesEnd`: the last function found, and nothing a further search would still find; not necessarily the last one there is. `BestChosen`: the first mode with the most rows of those before the first missing one, unless the firmware refused it, which is not noticed. `LookingEnds`. |
| `console` | does a command get the words typed? | `EditsLines`: yes, whatever the array still holds. `ValuesExact`: numbers are read modulo their width. |
| `print` | is the text what format and arguments say? | `RowHoldsHighBits`, `PrintsExactly`: yes, cut off at the limit. |
| `registers` | are formats read back as set, and does the word reach the stream? Does a name reach a register of its own? | `RoundTrip`, `NamedRateExact`: yes but for 22050 Hz, and no word is given a rate it does not mean. `PlaysWhatWasSet`: the word `set` made is in the format register of the played stream, for any number of input streams. `RegistersSeparate`: yes, by its full name, whatever else is written. `StreamShows`: the osdn names show the played stream behind four input streams, the sdn names behind none, and no name of another stream shows or disturbs it. `VerbIntact`: the codec finds in ICW what `sendVerb` was given, whatever is written elsewhere, and what `nodeio` lets reach into a neighbour field is bounded. |

The runs `immediate`, `widgets`, `stream`, `pci`, `console` and `print` also check a `TypeOK`, which bounds what may leave its range in that
component (a counter below zero, an index past its array, a field that
overflows into its neighbour).

### Bounds

* `immediate`: eight verbs, two polls. The scan's reading takes three, an
  unmute two and a refresh three, so each follows the other with answers late
  by up to all verbs before. A verb can time out after one poll or two; the
  code polls 1024 times, which only repeats `PollAgain`. Verbs of
  other nodes are not needed: the answers that can be mistaken for another all
  differ (capabilities with a mute bit, a muted side, 0 of a set verb).
* `widgets`: seven nodes, one of every kind the scan treats differently:
  absent, converter, mixer, pin, selector, input converter, a pin whose
  configuration has no names; a list of seventeen entries takes five responses
  and has one input amplifier more than a verb can name; a range entry; a long
  list; an amplifier without capabilities; a converter that can do 192 kHz, a
  white jack. One lost
  response at any of the exchanges, two commands, so that a loss in the scan
  meets a refresh and an unmute in either order. With two losses TLC does not
  end in five minutes.
* `stream`: none or two input streams, two output streams, three calls. With
  none, input and output descriptor are the same register, which hides the
  wrong descriptor of `stopSound`; with two they differ. `DelayCovers` is
  TRUE: the delay loop in `reset` outlasts the controller's way into reset.
  BootPlays is stated so that it would hold without that too.
* `registers`, the format: every 16-bit word, every combination of arguments,
  0 to 17 channels: complete. The write of its word follows every set, other
  accesses only the one of `efi_init`.
* `pci`: two buses and the one that is never probed, two devices, three
  functions, up to three HD audio functions anywhere. A find, a resumption on
  the same and on a later bus, and a function passed over all occur. Five firmware
  tables: the most rows last, first, behind a missing mode; two modes with as
  many rows; no mode 0. Two screen commands.
* `output_path`: two verbs in flight, so that a late answer can make the next
  one late, and one call after the boot, of any of the functions; no bound on
  losses. The pin starts as an input with a voltage reference; the identity of
  the codec has another 0 dB step and another reference when it is taken for
  capabilities or a pin control. 3.9 million states.
* `console`: a buffer of six characters holds a command and two parameters, or
  a number that wraps; keys of every class the code tells apart; a width of 8
  bits for the values. Every sequence of keys is explored.
* `print`: every number of 8 bits in a row of 3 digits, a limit of six
  characters, within a number, within a text and after all of it.
* `registers`, the accesses: any two in a row, of all 51 names, of abbreviations
  and of the stream functions; one access to disturb another is what the
  properties forbid. Streams beside and at the ones that have names. Six
  commands: the driver's own, with 8 and with 16 bits of payload, and a node,
  a verb and a payload that are too large.

### Fairness

Weak fairness of the program's own steps is assumed in the runs with liveness:
there is one thread and nothing preempts it for good. In ImmediateCommand the
hardware gets none, for the code assumes none: it counts its polls. In
StreamControl the controller's following of the reset bit is fair, as `reset`
relies on it without a limit; fetching is not. In WidgetDatabase the fairness
is of the steps within a scan or a command, not of giving commands; likewise in
EfiInit, where it is of the program's firmware calls and probes, each of which
returns. AmpExchange has the fairness of ImmediateCommand: the driver's steps
within an exchange.

## What is proved

**ExchangeProofs**, of ImmediateCommand, for every `MaxVerbs` and `MaxRetries`:

* `Invariance`: the inductive invariant `IInv`. The properties are not
  inductive: that a response is late by at most the number of timeouts needs
  to know, in every state, where the verbs that were not answered are. `IInv`
  says that what is in flight, latched or already returned is ordered and that
  the verbs given up are counted by `timeouts`, per control state.
* `TypeCorrect`, `LagIsBounded`, `DrainedVerbMatches`: the type invariant and
  the two action properties of the run, from `IInv`.
* `ImplementsChannel`: every step is a step of VerbChannel or a stutter, so
  `Spec => ChannelSpec`.

The same module, of AmpExchange, for every number of verbs and polls, every
amplifier and every setting it starts with:

* `AmpImplements`: every step of the composition is a step of ImmediateCommand
  or none of it, so its theorems hold of the composition, and `IInv` is part of
  the composition's invariant `AmpInv`.
* `UnmuteNeverMutes`: from the types alone, which are the point: the 0 dB step
  of an amplifier in the database, and so the gain that any verb in flight
  carries, is at most 127 whichever response it was taken from.
* `CleanTasks`: in a task that began with nothing in flight only its own verb
  is ever in flight (`AloneInv`), so a latched response is to that verb and
  still true when it is read (`ReplyInv`), and what has been read adds up to
  the amplifier (`ReadingInv`). The property speaks of the last step of a task
  only and is not inductive.

**WidgetDatabaseProofs**, for every codec whose registers are in their ranges,
any number of nodes, any number of lost responses and of commands:

* `Invariance`: the inductive invariant `IInv`. The properties speak of the
  ends of the scan, of a refresh and of an unmute; the invariant has to say of
  each of the up to hundreds of exchanges before what is known by then, and how
  well. It knows three strengths. Whatever was lost, a widget stored is the
  default or `Scanned`, each register the codec's own or its default. If
  nothing was ever lost, it is `Complete`. If nothing was lost since the task
  began, the amplifiers read so far are those of the codec (`AmpsExact`),
  whatever an earlier task lost. `Collecting` and `Reading` say the same of the
  widget that is being collected or refreshed, up to the exchange at `pc`.
  TLC checked `IInv` on the instance of the run before it was proved.
* `TypeCorrect`, `DatabaseTrueOrDefault`: from the first strength.
* `ScanIsExact`: from the second and the third; before the reset nothing
  changes a setting. `EntryOfWord` shows that shifting and masking a response
  gives the entries it was put together of; `ChannelBounds` that the index a
  verb carries is the amplifier's for the first sixteen, which is why the
  theorem is about these.
* `RefreshRepairsAll`: from the third. An input amplifier the database counts
  is one the codec has (`AmpCountBounds`), with the same index. That a valid
  output amplifier is not given up needs one invariant more, `KeptInv`: until a
  refresh reads it, the output amplifier in hand is that of the database.
* `UnmuteReaches`: the gain was taken from a widget that is `Scanned`, and a
  set verb that was answered was executed.
* `DumpShowsTruth`: `NodeShows`, fact by fact, from the first strength. That a
  gain printed before the reset is the codec's own or an unmuted 0 needs one
  invariant more, `LevelInv`: until the reset nothing sets an amplifier, and a
  reading starts from gains of 0. The truth is that of the codec's registers;
  the misprints are excepted by name and not called true.
* `ConfigRead` is the lemma about the pin configuration: shifting and masking
  the word gives back the fields it was put together of.

**OutputPathProofs**, for every 0 dB step, every capabilities, identity and pin
control, every database the scan may leave, any number of verbs in flight and
of later calls:

* `Invariance`: `IInv` says which part of which function's verbs is still to
  be sent (`Place`), what the next verb needs of the response in hand if its
  function began with nothing in flight (`Before`), and how far the way is open
  if all verbs were answered (`OpenTo`). It also says what may be in flight: no
  verb that would mute or enable an input; only as the oldest one the pin write
  of a call that began alone, and this with the reference the pin has (`Link`);
  and no verb that takes back what `setOutputNode` has reported, having begun
  alone (`OutputSettled`).
* `BootOpensPath`, `ConverterPlaying`, `PinWritesKeepVRef`: the invariants
  `PathOpen` and `OutputOKTrue` and the action property `PinKeepsVRef`.

The last part of **OutputPathProofs** is about StreamFormat, for every set of
16-bit words a codec may return and any bound on the channels:

* `FormatRoundTrips`, `FormatTypeCorrect` (a word that was set fits 16 bits with
  the reserved bits clear): by `FieldsOfWord`, the lemma that
  five fields in their ranges can be taken out of a word as they were put in.
* `NamedRatesExact`: by cases on the divisor; no multiple of 44.1 kHz is
  rounded down to a rate that has a name.
* `ConverterFormat`: the word OutputPath sends to the converter is the one
  `set` makes of `efi_init`'s arguments.

**StreamControlProofs**, for every number of streams, any number of calls,
whether or not the delay loop covers the reset:

* `Invariance`: the driver is at access n of the 23 of the boot sequence
  (`Place`), or at one of a later `playSound` or `stopSound`; `Facts(n)` says
  what holds after n accesses whatever the controller did between them:
  where it may be in its reset, what is programmed, what is off.
* `TypeCorrect`, `NothingElseRuns`, `BootPlaysAlways`, `FetchedInBuffer`: the
  type invariant, `RunsProgrammed`, `BootPlays` and the action property
  `FetchesInBuffer`, from it.

**EfiInitProofs**, for every size of the buses within the fields of a
configuration address, any HD audio functions and every firmware table:

* `SelectsAddressed`, a lemma the rest of the search needs: the configuration
  address the code forms selects the function it was formed of.
* `SearchTypeCorrect`, `SearchUsesLast`, `SearchAdvances`: by `SearchInv`. No
  HD audio function of the part that the start values leave to the search lies
  behind the search (`PartInv`), and the start values are those of the
  function found last (`StartInv`). When the loops end, that part has none.
* `TextModeIsBest`: by `TextInv`, which says of every point of the loop that
  the best so far is the first with the most rows of the modes looked at.

**RegisterFileProofs**, for every number of input streams up to 15, every word
and value given to `write`, every verb and every position of the controller:

* `RegisterInvariance`: the inductive invariant `RegisterInv`. Every register
  about which something is known holds it (`Truthful`), the four bytes of the
  position are the controller's (`PlaysAt`), the output descriptor is the one
  behind the input streams, and ICW was given the command word of the verb
  asked last.
* `TruthfulWrite`: a write of some bytes at some offset on behalf of some
  names keeps `Truthful` if it suits every entry of the table (`Covers`): the
  entry is the one meant, or one of several that may be, or overlaps with one
  that is, or lies outside the bytes. `NamedCovers` and `StreamCovers` show it
  of the writes by name and by stream, from the table's 51 entries
  (`EntriesDisjoint`, `FirstStream`, `FifthStream`, `OtherStreams`). The
  functions that write several registers are sequences of such writes.
* `NamesReachTheirOwn`, `StreamsShowTheirOwn`: the invariants
  `RegistersSeparate` and `StreamShows`, from `RegisterInv`.
* `CodecFindsVerb`: the invariant `VerbIntact`. The word's bytes are
  disjunctions; of fields that do not meet they are sums (`OrNibbles`), and of
  those that do only nibbles matter to the codec's number and the node
  (`CodecZero`, `NodeReached`).

**ConsoleProofs**, for every size of the array, every rubbish in it, every set
of keys and of commands, any number of parameters a command looks for:

* `TypeCorrect`: the index stays inside the array, before the element kept for
  the terminator. `TypeOK` is inductive.
* `ImplementsLine`: Console implements CommandLine, the property `EditsLines`.
  No invariant but `TypeOK` is needed: what a step reads of the array is the
  line, which is what the refinement mapping shows, and the terminator it has
  just written. The work is in Enter. `CommandFound` and `ParamFound`,
  `BlanksLeft`, `NothingLeft` say where the loops of `getCommand` and
  `findNextParam` stop; `WordAt`, `NextBegins` and `NoneBegins` where the words
  of a line begin and how many have begun. `OneCall` joins them: after i calls
  the next continues where no word goes on and i words have begun
  (`Continues`), so its parameter is word i + 1. `CallsFollow` is the
  induction over the calls, and `CallsDefined` the one that shows that the
  recursive function of the calls exists. The library's induction theorems
  take an operator, so both go by the set of the numbers that a statement holds
  for (`InductiveSet`, from `WFMin`).
* `ValuesAreExact`: the property `ValuesExact`, for every width of a value and
  numbers of any length. The invariant it needs is `WordsTyped`: the words of
  the last command are texts of bytes, which `OneCall` and `CallsFollow` show
  on the way. `ValueIsNumber` is the core: the value of the first digits, times
  the power of the base that is left, and the places of the last digits
  together keep their remainder while one digit after the other moves from the
  loop's value to the places (`DigitMoves`); that a remainder may be taken in
  every turn of the loop is `RemainderEarly`.

**PrintFormatProofs**, for every width of numbers that is a multiple of 4, every
row of digits long enough for it, every size of the buffer and every format:

* `PrintInvariance`: the inductive invariant `PrintInv`. `PrintsExactly` speaks
  of the end only; the invariant says of every point what has been put: what
  fits of the items that are done and of the sign (`Buffered`), and what the
  row and `val` hold of the number in between (`RowHoldsHighBits`).
* `RowExact`: a pass over the row doubles the number in it and adds the bit
  that comes in, but for what leaves the highest digit (`DoubledSum`), and
  nothing does, as the number is below the power of ten of the row.
  `NextBit` is the step of `val`.
* `PrintExact`: what `toUDec` prints of the row are the decimal digits of its
  number with no 0 in front (`StrippedIsDecimal`), what `toHex` prints is the
  only text of its length that stands for the number (`ToHexIsHexadecimal`),
  and putting a text into a buffer that holds what fits of the texts before
  leaves what fits of all of them (`PutCuts`).
* `TypeCorrect`: from the invariant; the buffer keeps a place for the
  terminator.
* The powers, sums and texts are recursive functions. `Followed` shows that
  such a function exists, `FollowAlike` and `StaysIn` what follows from it;
  induction is again by `InductiveSet`.

The assumptions used are those the modules name on their constants. What they
say of the system: a codec's registers have the widths of the specification, an
amplifier's 0 dB step seven bits, a channel of the unmute command the four bits
its verb carries (`commands.cpp` 242), the bus numbers the width of the
configuration address. `NoResponseAssumption` only keeps the outcome of a lost
exchange apart from every response. `TableAssumption` of RegisterFile is a fact,
not a condition: no name of the table is the beginning of another. The prover
knows that two strings differ but nothing of their characters, so TLC evaluates
it on the actual table.

Only model-checked:

* liveness (`ExchangeEnds`, `TasksEnd`, `BootEnds`, `SearchesEnd`,
  `LookingEnds`): the prover has neither fairness nor ENABLED;
* `TableAssumption`, a fact about the characters of the register names.

## What is not modelled

* `write` from the console can reach every register and so disturb every
  model; none but RegisterFile has that user. There the controller is a memory
  and does nothing with what is written.
* Graphics: `do_graphics` and `mandelbrot` have no caller, `showvideo` prints.
* The wording and the layout of what is printed. WidgetDump keeps what is
  said, and compares it with what the codec's registers mean.
* Allocator, EFI declarations, build: no logic of their own.
* Within modelled components: numbers outside the database given to `unmute`;
  base addresses with their flag bits; the upper half of the PCI status and
  command register that `setPCICommandReg` reads and writes back; the
  difference between bytes and characters in the size `print` passes on.
  PROJECT.json lists those a test would hardly reach as hazards, with their
  lines.
* AmpExchange is one node with one amplifier. Late answers in the rest of the
  scan (a list length, a pin configuration) are not followed: after the first
  timeout nothing can be said of them, which is what `LagBounded` allows.
  WidgetDatabase and WidgetDump speak of lost responses only, and OutputPath
  starts from a database that such a scan leaves.
* Input amplifiers after the sixteenth are in the database as the code reads
  them, each as the one sixteen places before; no property is about their
  levels, as no verb can tell them apart.
* OutputPath's calls after the boot are those of the functions of HDACodec;
  `unmute` and `nodeio` from the console, which can set the same amplifiers, are
  not among them.

## Plan

1. Done: immediate commands and their composition with the amplifier reads,
   database and dump, stream control, format, PCI search and text modes, output
   path, console, formatter, register file.
   Late answers in the exchange, the amplifier reads and the output path.
   Proofs of the exchange and of its composition with its callers, of the
   database, the output path, the controller, the search and the choice of the
   text mode, of the format, of the console, and of the formatter.
   Proof that what the `node` command prints of the database is true.
   Proof that the commands read numbers as they are written.
   Proof that names and stream accesses keep apart in the registers, and that a
   codec finds in the command word what `sendVerb` was given.
2. Left: the registers as RegisterFile's memory under StreamControl and
   ImmediateCommand, in place of the named registers they have, so that a write
   from the console reaches them. Late answers in the rest of the scan.
