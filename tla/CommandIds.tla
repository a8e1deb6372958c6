----------------------------- MODULE CommandIds -----------------------------
(***************************************************************************)
(* A command id on its way to a probe and back.  The backend's id is text; *)
(* parse_uuid_compact_bytes (ble.rs) packs it into the payload, and        *)
(* expand_command_id (polling.rs) makes text again of the bytes a probe    *)
(* reports.  Text is a sequence of bytes, as in both functions.            *)
(***************************************************************************)
EXTENDS Naturals, Sequences

CONSTANTS
    Width,  \* bytes of a packed id: 16
    Breaks  \* the bytes a hyphen is written before: 4, 6, 8 and 10

ASSUME IdAssumption == Width \in Nat

Byte == 0..255
Text == Seq(Byte)
Packed == [0..(Width - 1) -> Byte]

Hyphen == 45

----------------------------------------------------------------------------
(* Packing *)

IsHex(b) == b \in 48..57 \cup 65..70 \cup 97..102

Nibble(b) == b - (IF b <= 57 THEN 48 ELSE IF b <= 70 THEN 55 ELSE 87)

(* One byte of text; ok ends with the first return of an error.  A digit   *)
(* too many is found out when its byte is complete, or by the count.       *)
Take(acc, b) ==
    IF ~acc.ok \/ b = Hyphen THEN acc
    ELSE IF ~IsHex(b) THEN [acc EXCEPT !.ok = FALSE]
    ELSE IF acc.count % 2 = 0
         THEN [acc EXCEPT !.high = Nibble(b), !.count = @ + 1]
    ELSE IF acc.count \div 2 >= Width THEN [acc EXCEPT !.ok = FALSE]
    ELSE [acc EXCEPT !.output[acc.count \div 2] = 16 * acc.high + Nibble(b),
                     !.count = @ + 1]

Packing(text) ==
    LET loop[k \in 0..Len(text)] ==
            IF k = 0 THEN [count |-> 0, high |-> 0, ok |-> TRUE,
                           output |-> [i \in 0..(Width - 1) |-> 0]]
                     ELSE Take(loop[k - 1], text[k])
    IN  loop

IsUuid(text) ==
    LET end == Packing(text)[Len(text)] IN end.ok /\ end.count = 2 * Width

Pack(text) == Packing(text)[Len(text)].output

----------------------------------------------------------------------------
(* Expanding *)

HexDigit(n) == IF n <= 9 THEN 48 + n ELSE 87 + n

(* The byte of index i is written behind what there is. *)
Put(text, id, i) ==
    LET start == IF i \in Breaks THEN Append(text, Hyphen) ELSE text
    IN  Append(Append(start, HexDigit(id[i] \div 16)), HexDigit(id[i] % 16))

Expanding(id) ==
    LET loop[k \in 0..Width] == IF k = 0 THEN <<>> ELSE Put(loop[k - 1], id, k - 1)
    IN  loop

Expand(id) == Expanding(id)[Width]

----------------------------------------------------------------------------
(* What packing is meant to do, without its loop: the digits of the text   *)
(* in their order, and how many there are.                                 *)
Digits(text) ==
    LET loop[k \in 0..Len(text)] ==
            IF k = 0 THEN <<>>
            ELSE IF text[k] = Hyphen THEN loop[k - 1]
                                     ELSE Append(loop[k - 1], Nibble(text[k]))
    IN  loop

AllDigits(text) == Digits(text)[Len(text)]

(* A text is a UUID exactly if it consists of the right number of digits   *)
(* and of hyphens, wherever they are (ble.rs:788-826).                     *)
UuidIs(text) ==
    IsUuid(text) <=>
        /\ \A k \in 1..Len(text) : text[k] = Hyphen \/ IsHex(text[k])
        /\ Len(AllDigits(text)) = 2 * Width

(* Each byte is made of the two digits at its place, of either case.       *)
PackIs(text) ==
    IsUuid(text) =>
        Pack(text) = [i \in 0..(Width - 1) |->
                        16 * AllDigits(text)[2 * i + 1] + AllDigits(text)[2 * i + 2]]

(* What a probe reports is the id of the command it was given, in the one  *)
(* spelling that expand_command_id writes (polling.rs:451-472).            *)
ComesBack(id) == IsUuid(Expand(id)) /\ Pack(Expand(id)) = id
=============================================================================
