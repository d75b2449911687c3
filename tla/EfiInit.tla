------------------------------ MODULE EfiInit ------------------------------
(***************************************************************************)
(* efi_init from its start to the console: the text mode, the search for   *)
(* the HD audio function, and then the commands that concern the screen.   *)
(* One thread, so each part begins when the one before it has ended.       *)
(***************************************************************************)
EXTENDS PciScan, TextModes

EfiInit == Init /\ TextInit

Choosing == ChooseMode /\ UNCHANGED vars

Searching == textPc = "ready" /\ Step /\ UNCHANGED textVars

Listing == List /\ UNCHANGED vars

Program == Choosing \/ Searching \/ Listing

Commanding == phase = "done" /\ TextCommand /\ UNCHANGED vars

AllCommandsGiven == /\ phase = "done" /\ textPc = "ready"
                    /\ textCommands = MaxTextCommands
                    /\ UNCHANGED <<vars, textVars>>

EfiNext == Program \/ Commanding \/ AllCommandsGiven

(* The program's thread runs; commands are the user's choice.              *)
EfiSpec == EfiInit /\ [][EfiNext]_<<vars, textVars>>
                   /\ WF_<<vars, textVars>>(Program)
=============================================================================
