---------------------------- MODULE StreamFormat ----------------------------
(***************************************************************************)
(* HDA::StreamFormat: the format word of a stream and of a converter.      *)
(*                                                                         *)
(*   bits 0-3 channels - 1   4-6 bit depth   8-10 divisor - 1              *)
(*   bits 11-13 multiplier - 1   14 base rate, 0: 48 kHz, 1: 44.1 kHz      *)
(*                                                                         *)
(* An object is default constructed and set, as efi_init does, or holds    *)
(* the word a codec returned, as getIOWidgetFormat makes it, and is read.  *)
(***************************************************************************)
EXTENDS Integers

CONSTANTS
  Words,        \* the format words a codec may return
  MaxChannels   \* bound on the channels asked for; the code takes 1..16

Word16   == 0..(2^16 - 1)
PcmWords == 0..(2^15 - 1)     \* bit 15 is clear

ASSUME WordsAssumption == Words \subseteq Word16
ASSUME MaxChannelsAssumption == MaxChannels \in Nat

SampleRates == {"R16000", "R22050", "R32000", "R44100", "R48000", "R96000", "R192000"}
BitDepths == {"B8", "B16", "B20", "B24", "B32"}

(* The word is put together from fields and taken apart again.             *)
Word(base, multiplier, divisor, depth, channels) ==
  16384 * base + 2048 * multiplier + 256 * divisor + 16 * depth + channels

Field(word, weight, size) == (word \div weight) % size

BaseOf(word)       == Field(word, 16384, 2)
MultiplierOf(word) == Field(word, 2048, 8)
DivisorOf(word)    == Field(word, 256, 8)
ReservedOf(word)   == Field(word, 128, 2)
DepthOf(word)      == Field(word, 16, 8)
ChannelsOf(word)   == Field(word, 1, 16)

RateFields(sr) ==
  CASE sr = "R16000"  -> [base |-> 0, multiplier |-> 0, divisor |-> 2]
    [] sr = "R22050"  -> [base |-> 1, multiplier |-> 0, divisor |-> 1]
    [] sr = "R32000"  -> [base |-> 0, multiplier |-> 1, divisor |-> 2]
    [] sr = "R44100"  -> [base |-> 1, multiplier |-> 0, divisor |-> 0]
    [] sr = "R48000"  -> [base |-> 0, multiplier |-> 0, divisor |-> 0]
    [] sr = "R96000"  -> [base |-> 0, multiplier |-> 1, divisor |-> 0]
    [] sr = "R192000" -> [base |-> 0, multiplier |-> 3, divisor |-> 0]

DepthField(depth) ==
  CASE depth = "B8"  -> 0
    [] depth = "B16" -> 1
    [] depth = "B20" -> 2
    [] depth = "B24" -> 3
    [] depth = "B32" -> 4

(* Faulty: any number of channels is taken.                                *)
AcceptsAnyChannels(sr, bits, channels) ==
  sr \in SampleRates /\ bits \in BitDepths /\ channels # 0

Accepts(sr, bits, channels) ==
  /\ sr \in SampleRates      \* not Invalid
  /\ bits \in BitDepths      \* not Invalid
  /\ channels \in 1..16

(* StreamFormat::set of arguments it accepts.                              *)
FormatOf(sr, bits, channels) ==
  LET f == RateFields(sr)
  IN Word(f.base, f.multiplier, f.divisor, DepthField(bits), channels - 1)

BaseHz(word) == IF BaseOf(word) = 0 THEN 48000 ELSE 44100

(* Faulty: the divisor field is taken to have two bits.                    *)
RateHzShortDivisor(word) ==
  (BaseHz(word) * (MultiplierOf(word) + 1)) \div ((DivisorOf(word) % 4) + 1)

(* In whole hertz, rounded down.                                           *)
RateHz(word) ==
  (BaseHz(word) * (MultiplierOf(word) + 1)) \div (DivisorOf(word) + 1)

(* There is no case for 22050 Hz.                                          *)
getSampleRate(word) ==
  CASE RateHz(word) = 16000  -> "R16000"
    [] RateHz(word) = 32000  -> "R32000"
    [] RateHz(word) = 44100  -> "R44100"
    [] RateHz(word) = 48000  -> "R48000"
    [] RateHz(word) = 96000  -> "R96000"
    [] RateHz(word) = 192000 -> "R192000"
    [] OTHER -> "Invalid"

getBitDepth(word) ==
  CASE DepthOf(word) = 0 -> "B8"
    [] DepthOf(word) = 1 -> "B16"
    [] DepthOf(word) = 2 -> "B20"
    [] DepthOf(word) = 3 -> "B24"
    [] DepthOf(word) = 4 -> "B32"
    [] OTHER -> "Invalid"

getChannels(word) == ChannelsOf(word) + 1

VARIABLES
  m_value,   \* the word
  arguments  \* the arguments set accepted last; NotAsked or FromCodec

formatVars == <<m_value, arguments>>

NotAsked == [sr |-> "Invalid", bits |-> "Invalid", channels |-> 0]
FromCodec == [sr |-> "codec", bits |-> "codec", channels |-> 0]

FormatInit == \/ m_value = 0 /\ arguments = NotAsked
              \/ m_value \in Words /\ arguments = FromCodec

Set(sr, bits, channels) ==
  /\ arguments # FromCodec
  /\ IF Accepts(sr, bits, channels)
     THEN /\ m_value' = FormatOf(sr, bits, channels)
          /\ arguments' = [sr |-> sr, bits |-> bits, channels |-> channels]
     ELSE UNCHANGED formatVars

(* The getters change nothing.                                             *)
Get == UNCHANGED formatVars

FormatNext ==
  \/ \E sr \in SampleRates \cup {"Invalid"}, bits \in BitDepths \cup {"Invalid"},
        channels \in 0..MaxChannels : Set(sr, bits, channels)
  \/ Get

FormatSpec == FormatInit /\ [][FormatNext]_formatVars
-----------------------------------------------------------------------------
IsSet == arguments # FromCodec /\ arguments # NotAsked

(* The word fits the 16 bits that setIOWidgetFormat sends; bit 15 (not PCM) *)
(* and the reserved bit 7 are clear in a word that was set.                 *)
TypeOK == /\ m_value \in Word16
          /\ IsSet => m_value \in PcmWords /\ ReservedOf(m_value) = 0

(* What was set is what is got back, the rate of 22050 Hz excepted.         *)
RoundTrip ==
  IsSet => /\ getBitDepth(m_value) = arguments.bits
           /\ getChannels(m_value) = arguments.channels
           /\ arguments.sr # "R22050" => getSampleRate(m_value) = arguments.sr

Hertz == [R16000 |-> 16000, R22050 |-> 22050, R32000 |-> 32000, R44100 |-> 44100,
          R48000 |-> 48000, R96000 |-> 96000, R192000 |-> 192000]

(* Whatever word a codec returns, a rate is named only if the word means    *)
(* exactly that rate: rounding down never makes one up.                     *)
NamedRateExact ==
  LET base == IF (m_value \div 16384) % 2 = 1 THEN 44100 ELSE 48000
      multiplier == ((m_value \div 2048) % 8) + 1
      divisor == ((m_value \div 256) % 8) + 1
      named == getSampleRate(m_value)
  IN named # "Invalid" => Hertz[named] * divisor = base * multiplier

(* hdacodec.cpp:963-968 sets 22050 Hz up as 44.1 kHz divided by 2, and the  *)
(* name table of hdacodec.cpp:1075 holds "22050": a rate set is got back.   *)
EveryRateRoundTrips == IsSet => getSampleRate(m_value) = arguments.sr
=============================================================================
