------------------------------ MODULE JsonText -------------------------------
(***************************************************************************)
(* JsonEscape of zlm_publisher.cpp, which puts an SDP answer or an error   *)
(* message between the quotes of a JSON string, and a reader of such       *)
(* strings to check it against.  A character is the letter it is printed   *)
(* as, the name of what it does, or a class of characters alike.           *)
(***************************************************************************)
EXTENDS Integers, Sequences

(* The characters with an escape of their own, and its letter. *)
Letter ==
    [quote |-> "quote", backslash |-> "backslash", backspace |-> "b",
     formfeed |-> "f", newline |-> "n", return |-> "r", tab |-> "t"]

(* Variants with an error in them, used by no specification. *)
(* the backslash itself is not escaped *)
EscapedLessBackslash(c) ==
    IF c = "backslash" THEN <<c>>
    ELSE IF c \in DOMAIN Letter THEN <<"backslash", Letter[c]>>
    ELSE IF c = "control" THEN <<"?">>
    ELSE <<c>>

(* Other control characters have no short escape and become a '?'. *)
Escaped(c) ==
    IF c \in DOMAIN Letter THEN <<"backslash", Letter[c]>>
    ELSE IF c = "control" THEN <<"?">>
    ELSE <<c>>

(* What is escaped after i characters of the text. *)
EscapedUpTo(text) ==
    LET upTo[i \in 0 .. Len(text)] ==
            IF i = 0 THEN <<>> ELSE upTo[i - 1] \o Escaped(text[i])
    IN  upTo

JsonEscape(text) == EscapedUpTo(text)[Len(text)]

(***************************************************************************)
(* A JSON reader between the quotes of a string: what it has read, and     *)
(* whether it is inside an escape or met the closing quote.                *)
(***************************************************************************)
Reader(read, at) == [read |-> read, at |-> at]

Start == Reader(<<>>, "text")

Meaning(letter) == CHOOSE c \in DOMAIN Letter : Letter[c] = letter

ReadCharacter(reader, c) ==
    CASE reader.at = "closed" -> reader
      [] reader.at = "escape" -> Reader(Append(reader.read, Meaning(c)), "text")
      [] reader.at = "text" ->
            IF c = "quote" THEN Reader(reader.read, "closed")
            ELSE IF c = "backslash" THEN Reader(reader.read, "escape")
            ELSE Reader(Append(reader.read, c), "text")

(* The reader after i characters of the string. *)
ReadUpTo(json) ==
    LET upTo[i \in 0 .. Len(json)] ==
            IF i = 0 THEN Start ELSE ReadCharacter(upTo[i - 1], json[i])
    IN  upTo

(* What a control character without an escape is shown as. *)
Shown(c) == IF c = "control" THEN "?" ELSE c

(* The reader reads what was put in, character by character, and is ready  *)
(* for the closing quote at the end.                                       *)
ReadsBack(text) ==
    LET json == JsonEscape(text) IN
    ReadUpTo(json)[Len(json)] = Reader([i \in DOMAIN text |-> Shown(text[i])], "text")
=============================================================================
