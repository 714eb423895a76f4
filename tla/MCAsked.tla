------------------------------- MODULE MCAsked ------------------------------
(* What becomes of what a peer sends: who may run a command, what is made  *)
(* of a line, how many messages pass, how requests are answered. Once      *)
(* sessions and rooms are abstracted these share no state, and are checked *)
(* side by side: a behaviour is one of the component that part names, and  *)
(* the others stay as they begin.                                          *)
EXTENDS Commands, TLC

CONSTANTS MaxText, MaxNick, MaxUint, MaxLine,             \* of CommandLine
          FloodWindow, FloodLimit,                        \* of FloodControl
          AskUid, AskRoom, BadName, Guest, NoId, MaxAsk  \* of Requests

VARIABLES part,
          line,
          state, sinceReset, messageCounter, passed,
          account, joined, roomOwner, sent, asked, req

Line == INSTANCE CommandLineProofs
Flood == INSTANCE FloodControl
Ask == INSTANCE Requests WITH
           Uid <- AskUid, Room <- AskRoom, uid <- account, owner <- roomOwner

ASSUME AskedAssumption ==
    Line!CommandLineAssumption /\ Flood!FloodAssumption /\ Ask!RequestsAssumption

floodVars == <<state, sinceReset, messageCounter, passed>>
answerVars == <<account, joined, roomOwner, sent, asked, req>>

InitEach ==
    /\ Init /\ Line!Init /\ Flood!Init /\ Ask!Init
    /\ part \in {"commands", "lines", "flood", "answers"}

NextOfPart ==
    /\ \/ part = "commands" /\ Next /\ UNCHANGED <<line, floodVars, answerVars>>
       \/ part = "lines" /\ Line!Next /\ UNCHANGED <<vars, floodVars, answerVars>>
       \/ part = "flood" /\ Flood!Next /\ UNCHANGED <<vars, line, answerVars>>
       \/ part = "answers" /\ Ask!Next /\ UNCHANGED <<vars, line, floodVars>>
    /\ UNCHANGED part

SpecOfParts == InitEach /\ [][NextOfPart]_<<vars, line, floodVars, answerVars, part>>

(* The clients are alike, and the accounts that requests name.             *)
Symmetry == Permutations(Client) \cup Permutations(AskUid)

(* Each component keeps the types of its state.                            *)
TypesOK == TypeOK /\ Line!TypeOK /\ Flood!TypeOK /\ Ask!TypeOK

(* What is said is clean, and no command is said (CommandLine.tla).        *)
TextClean == Line!TextClean

(* Commands take from a line what was written there (CommandLine.tla).     *)
ArgumentsExact == Line!ArgumentsExact

(* Two allowances of messages at most in successive seconds                *)
(* (FloodControl.tla).                                                     *)
FloodBounded == Flood!FloodBounded

(* A request is answered in its step, to whoever asked and under its       *)
(* number, and nothing else is numbered (Requests.tla).                    *)
AnswersMatch == Ask!AnswersMatch

(* The server vouches for what it sends (Requests.tla).                    *)
FieldsVouched == Ask!FieldsVouched

(* Peers are told all that happens to them, and nothing else (Requests.tla).*)
AnswersTrue == Ask!AnswersTrue

=============================================================================
