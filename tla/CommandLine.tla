---------------------------- MODULE CommandLine ----------------------------
(***************************************************************************)
(* From the bytes that a peer writes to what is said or done: the text of  *)
(* PacketMessage::deserialize with replaceInvalidUtf8 of src/algo.cpp,     *)
(* processCommand of src/packets.cpp, regex_parser of src/regex/regex.cpp  *)
(* and what the commands msg, umsg, nick, kick, bannick, me, color and     *)
(* those with a number make of the rest of the line.                       *)
(*                                                                         *)
(* A byte is one of a few kinds: a space, a newline, a letter that is a    *)
(* hexadecimal digit, a digit, the two halves "lead" and "cont" of a       *)
(* Russian letter, and the marks "/" and "#". Limits are small.            *)
(***************************************************************************)
EXTENDS Integers, Sequences, SequencesExt

CONSTANTS MaxText,    \* bytes of a message, 30 * 1024
          MaxNick,    \* 24
          MaxUint,    \* the largest uint
          MaxLine     \* bound of the model on the bytes that are written

CommandLineAssumption == {MaxText, MaxNick, MaxLine} \subseteq Nat /\ MaxUint \in Nat \ {0}

VARIABLE line         \* what the peer has written

Byte == {" ", "newline", "a", "1", "lead", "cont", "/", "#"}
Space == {" ", "newline"}
Word == Byte \ Space
Digit == {"1"}
Hex == {"a", "1"}

Init == line = <<>>

(* A mark matters at the start of a line; elsewhere it is a letter.        *)
Write(b) ==
    /\ Len(line) < MaxLine
    /\ b \in {"/", "#"} => line = <<>>
    /\ line' = Append(line, b)

(* The line is sent, and another one begun. *)
Send == line # <<>> /\ line' = <<>>

Next == Send \/ \E b \in Byte : Write(b)

Spec == Init /\ [][Next]_line

-----------------------------------------------------------------------------
(* The text of a message.                                                  *)

(* What step makes of x with one byte of s after the other.                *)
Along(s, x, step) ==
    LET out[i \in 0..Len(s)] == IF i = 0 THEN x ELSE step[s[i]][out[i - 1]]
    IN  out[Len(s)]

(* regex_replace of "\n{3,}": three newlines stay of a longer run.         *)
Newlines(t) == Len(t) >= 3 /\ \A i \in (Len(t) - 2)..Len(t) : t[i] = "newline"
Collapse(s) ==
    Along(s, <<>>, [b \in Byte |-> [t \in Seq(Byte) |->
                       IF Newlines(t) /\ b = "newline" THEN t ELSE Append(t, b)]])

Cut(s) == IF Len(s) > MaxText THEN SubSeq(s, 1, MaxText) ELSE s

(* utf8::find_invalid: a first half without the second, or a second half   *)
(* without the first.                                                      *)
Invalid(s, i) ==
    \/ s[i] = "lead" /\ (i = Len(s) \/ s[i + 1] # "cont")
    \/ s[i] = "cont" /\ (i = 1 \/ s[i - 1] # "lead")

ReplaceInvalidUtf8(s) == [i \in DOMAIN s |-> IF Invalid(s, i) THEN " " ELSE s[i]]

(* Mutant of Text: the text is cut last. *)
TextCutLast(s) == Cut(ReplaceInvalidUtf8(Collapse(s)))

Text(s) == ReplaceInvalidUtf8(Cut(Collapse(s)))

(* regex_match of "\s*". *)
Blank(s) == ToSet(s) \subseteq Space

-----------------------------------------------------------------------------
(* regex_parser: the input that is left, the last match and its suffix.    *)

Parser(s) == [found |-> FALSE, next |-> s, match |-> <<>>, suffix |-> <<>>]

(* regex_parser::next with an expression that matches the first n bytes of *)
(* what is left, or nothing if n = 0. No match loses the last one, but the *)
(* end of the input does not.                                              *)
TakeNext(p, n) ==
    IF p.next = <<>> THEN [p EXCEPT !.found = FALSE]
    ELSE IF n = 0 THEN Parser(p.next)
    ELSE LET rest == SubSeq(p.next, n + 1, Len(p.next)) IN
         [found |-> TRUE, next |-> rest, match |-> SubSeq(p.next, 1, n), suffix |-> rest]

(* How many bytes "^B+" matches. *)
Span(s, B) == CHOOSE n \in 0..Len(s) : (\A i \in 1..n : s[i] \in B) /\ (n < Len(s) => s[n + 1] \notin B)

TakeAll(p, B) == TakeNext(p, Span(p.next, B))

(* r_cmd, "^/([^\s]+)", of which the group is read, then r_spaces. *)
TakeCommand(s) ==
    LET n == IF s # <<>> /\ s[1] = "/" THEN Span(Tail(s), Word) ELSE 0 IN
    TakeNext(Parser(s), IF n = 0 THEN 0 ELSE n + 1)
Arguments(p) == TakeAll(p, Space)

-----------------------------------------------------------------------------
(* PacketMessage::process and processCommand.                              *)

Process(s) ==
    LET t == Text(s) p == TakeCommand(t) IN
    IF t = <<>> THEN [kind |-> "nothing"]
    ELSE IF Blank(t) THEN [kind |-> "blank"]
    ELSE IF p.found THEN [kind |-> "command", name |-> Tail(p.match), args |-> Arguments(p)]
    ELSE IF t[1] = "/" THEN [kind |-> "no command"]
    ELSE [kind |-> "said", text |-> t]

(* The parser as a command gets it: "/a", a space and s. *)
Given(s) == Arguments(TakeCommand(<<"/", "a", " ">> \o s))

-----------------------------------------------------------------------------
(* The commands.                                                           *)

(* Mutant of AfterWord: the spaces are looked for first. *)
AfterWordBlind(p) == LET q == TakeAll(p, Space) IN IF q.found THEN q.suffix ELSE <<>>

(* The text of msg and umsg: what follows a word and spaces. *)
AfterWord(p) == LET q == TakeAll(TakeAll(p, Word), Space) IN IF q.found THEN q.suffix ELSE <<>>

(* CommandPrivateMessage. *)
Private(p) ==
    LET q == TakeAll(p, Word) IN
    [to |-> IF q.found THEN q.match ELSE <<>>, text |-> AfterWord(p)]

(* operator >> of an istringstream: the largest uint if there is no room.  *)
(* The one digit of the model is 1.                                        *)
ReadUint(s) ==
    LET value == Along(s, 0, [b \in Digit |-> [n \in Nat |-> 10 * n + 1]])
    IN  IF value > MaxUint THEN MaxUint ELSE value

(* CommandPrivateMessageById; the id is zero, nobody's, without a number.  *)
PrivateById(p) ==
    LET q == TakeAll(p, Digit) IN
    [to |-> IF q.found THEN ReadUint(q.match) ELSE 0, text |-> AfterWord(q)]

(* addmoder, delmoder, banuid, unbanuid: refused without a number. *)
Account(p) == LET q == TakeAll(p, Digit) IN IF q.found THEN {ReadUint(q.match)} ELSE {}

(* CommandStyledMessage: nothing is said if it is blank. *)
Styled(p) == IF Blank(p.suffix) THEN <<>> ELSE p.suffix

TrimEnd(s) == Reverse(SubSeq(Reverse(s), Span(Reverse(s), Space) + 1, Len(s)))
TrimStart(s) == SubSeq(s, Span(s, Space) + 1, Len(s))

(* regex_replace of "\s{2,}" by a space. *)
LongSpaces(s) ==
    Along(s, <<>>, [b \in Byte |-> [t \in Seq(Byte) |->
                       IF b \in Space /\ t # <<>> /\ Last(t) \in Space
                       THEN Append(Front(t), " ") ELSE Append(t, b)]])

(* CommandNick. *)
Nick(p) == LongSpaces(TrimStart(TrimEnd(p.suffix)))

(* r_login: a letter of Russian is two bytes and one of the 24. *)
LoginByte == {"a", "1", " ", "lead", "cont"}
Characters(s) == Len(SelectSeq(s, LAMBDA b : b # "cont"))
Allowed(n) == n # <<>> /\ ToSet(n) \subseteq LoginByte /\ Characters(n) <= MaxNick
                /\ \A i \in DOMAIN n : ~Invalid(n, i)

(* kick, bannick and unbannick look for the rest of the line as it is. *)
Named(p) == p.suffix

(* bannick and unbannick: "Incorrect nick". *)
BanRefuses(n) == Len(n) > MaxNick \/ n = <<>>

(* r_color, "^#?(6 or 3 hexadecimal digits)". *)
TakeColor(p) ==
    LET hash == IF p.next # <<>> /\ p.next[1] = "#" THEN 1 ELSE 0
        hex == Span(SubSeq(p.next, hash + 1, Len(p.next)), Hex)
    IN  TakeNext(p, IF hex >= 6 THEN hash + 6 ELSE IF hex >= 3 THEN hash + 3 ELSE 0)

(* CommandColor; none, which is refused, if there is no match. *)
Color(p) ==
    LET q == TakeColor(p) IN
    IF ~q.found THEN <<>> ELSE IF q.match[1] = "#" THEN q.match ELSE <<"#">> \o q.match

-----------------------------------------------------------------------------
(* What is made of a line, stated without a parser.                        *)

TypeOK ==
    /\ line \in Seq(Byte) /\ Len(line) <= MaxLine
    /\ PrivateById(Given(line)).to \in 0..MaxUint

(* s is a word, a run of spaces and a rest that does not start with one,   *)
(* the last two of which may be empty.                                     *)
Splits(s, word, rest) ==
    \E n \in 0..Len(s) :
        /\ Len(word) + n + Len(rest) = Len(s)
        /\ word = SubSeq(s, 1, Len(word)) /\ ToSet(word) \cap Space = {}
        /\ Blank(SubSeq(s, Len(word) + 1, Len(word) + n))
        /\ rest = SubSeq(s, Len(word) + n + 1, Len(s))
        /\ rest # <<>> => n > 0 /\ rest[1] \notin Space

(* What members are sent is readable whatever bytes came in: whole letters,*)
(* also where the text was cut, within the limit, and no page of newlines. *)
(* A text that needs nothing done is not touched. What starts with a slash *)
(* is never said to the room, nor is a blank text.                         *)
TextClean ==
    LET t == Text(line) did == Process(line)
        Fine(s) == /\ Len(s) <= MaxText /\ \A i \in DOMAIN s : ~Invalid(s, i)
                   /\ \A i \in 1..(Len(s) - 3) : \E j \in i..(i + 3) : s[j] # "newline"
    IN  /\ Fine(t) /\ (Fine(line) => t = line)
        /\ did.kind = "said" => t[1] # "/" /\ ~Blank(t) /\ did.text = t

(* A command gets its name and its arguments whole, without the spaces     *)
(* between them, and one that styles a text says all of it.                *)
CommandExact ==
    LET did == Process(line) IN
    did.kind = "command" =>
        /\ did.name # <<>> /\ Splits(Text(line), <<"/">> \o did.name, did.args.suffix)
        /\ Styled(did.args) = did.args.suffix

(* A private message goes to the first word, or to the number it starts    *)
(* with, and has as its text all that follows: no part of the addressee is *)
(* in the text and no part of the text is lost, nor one sent with none.    *)
(* Without a number nobody is meant: no member has the id zero.            *)
PrivateExact ==
    LET s == Given(line).suffix by == Private(Given(line)) id == PrivateById(Given(line)) IN
    /\ Splits(s, by.to, by.text)
    /\ id.text = by.text
    /\ id.to = 0 <=> (s = <<>> \/ s[1] \notin Digit)
    /\ Account(Given(line)) = {id.to} \ {0}

(* A nick that is given has one form, however it was typed, so that two    *)
(* members cannot look alike but for spaces; asking for it again changes   *)
(* nothing, and a moderator who types it in a kick or a ban means it.      *)
NickNormal ==
    LET n == Nick(Given(line)) IN
    Allowed(n) =>
        /\ n[1] \notin Space /\ Last(n) \notin Space
        /\ \A i \in 1..(Len(n) - 1) : ~(n[i] \in Space /\ n[i + 1] \in Space)
        /\ Nick(Given(n)) = n
        /\ Named(Given(n)) = n

(* A color is a mark and three or six hexadecimal digits, or refused.      *)
ColorWellFormed ==
    LET c == Color(Given(line)) IN
    c # <<>> => c[1] = "#" /\ ToSet(Tail(c)) \subseteq Hex /\ Len(c) \in {4, 7}

(* What commands take from a line is what was written there, for the       *)
(* regular expressions that tear it apart one after the other, where one   *)
(* that matches nothing loses what the last one had left.                  *)
ArgumentsExact == CommandExact /\ PrivateExact /\ NickNormal /\ ColorWellFormed

(* A nick that /nick takes is a correct nick for /bannick, which says that *)
(* others are not. The code counts bytes here and letters there.           *)
NicksBannable == LET n == Nick(Given(line)) IN Allowed(n) => ~BanRefuses(n)

=============================================================================
