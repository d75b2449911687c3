---------------------------- MODULE PlayedFormat ----------------------------
(***************************************************************************)
(* The format object and the registers its word goes to: efi_init sets a   *)
(* StreamFormat and hands it to outputStreamFormat, as playSound does, and *)
(* accesses the registers afterwards. A word that a codec returned is read *)
(* only.                                                                   *)
(***************************************************************************)
EXTENDS RegisterFile, StreamFormat

(* The object efi_init makes; every other one is followed up to the write  *)
(* of its word.                                                            *)
efiFormat == [sr |-> "R48000", bits |-> "B16", channels |-> 2]

(* Of a codec's words nothing depends on the streams of the controller.    *)
PlayInit == /\ Init /\ FormatInit
            /\ arguments = FromCodec => numIn = 4

Formatting == accesses = 0 /\ FormatNext /\ UNCHANGED vars

PlayFormat ==
  /\ IsSet /\ accesses = 0
  /\ accesses' = accesses + 1
  /\ outputStreamFormat(<<m_value % 256, m_value \div 256>>)
  /\ UNCHANGED <<numIn, m_inputDescriptor, m_outputDescriptor, formatVars>>

Accessing == arguments = efiFormat /\ Next /\ UNCHANGED formatVars

Played == accesses # 0 /\ arguments # efiFormat /\ UNCHANGED <<vars, formatVars>>

PlayNext == Formatting \/ PlayFormat \/ Accessing \/ Played

PlaySpec == PlayInit /\ [][PlayNext]_<<vars, formatVars>>
-----------------------------------------------------------------------------
WordOf(bytes) == bytes[1] + 256 * bytes[2]

(* The getters take the word apart into the arguments of set, the rate of  *)
(* 22050 Hz excepted.                                                      *)
MeansArguments(word) ==
  /\ getBitDepth(word) = arguments.bits
  /\ getChannels(word) = arguments.channels
  /\ arguments.sr # "R22050" => getSampleRate(word) = arguments.sr

(* The format register of the stream that is played holds the arguments    *)
(* given to set, all of them, wherever the controller has that stream, and *)
(* its name, where it has one, reads the same: outputStreamFormat writes a *)
(* 16-bit word with 32 bits at an offset that is no multiple of four.      *)
PlaysWhatWasSet ==
  [][PlayFormat =>
       LET word == WordOf(ReadBytes(memory', Stream(numIn) + 18, 2))
       IN /\ MeansArguments(word)
          /\ \A n \in StreamName(numIn, 18) : WordOf(readReg(memory', n)) = word
    ]_<<vars, formatVars>>
=============================================================================
