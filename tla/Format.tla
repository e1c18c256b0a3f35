------------------------------- MODULE Format -------------------------------
(***************************************************************************)
(* Formatted output: vsprintf(), append_number() and skip_atoi() of        *)
(* string.c, and its two users, printk() and the user mode printf().       *)
(*                                                                         *)
(* A format is a sequence of characters; behind its last one is the "nul". *)
(* Numbers have W bits.  append_number() makes one step per digit, as it   *)
(* fills _buf backwards.                                                   *)
(***************************************************************************)
EXTENDS Integers, Sequences, SequencesExt

CONSTANTS
    W,              \* 32
    BUFSIZE,        \* 64: _buf has BUFSIZE + 1 characters
    PointerWidth,   \* 8: width of %p if none is given
    Formats,        \* the formats ...
    Numbers,        \* ... and the arguments the callers pass: for a number,
    Characters,     \*     for a %c
    Strings         \*     and for a %s

ASSUME FormatAssumption ==
    /\ W \in Nat \ {0} /\ BUFSIZE \in Nat \ {0} /\ PointerWidth \in 1 .. BUFSIZE
    /\ W + 2 <= BUFSIZE
    /\ Numbers \subseteq 0 .. 2 ^ W - 1

Digits == << "0", "1", "2", "3", "4", "5", "6", "7",
             "8", "9", "a", "b", "c", "d", "e", "f" >>
is_digit(c)   == \E i \in 1 .. 10 : Digits[i] = c
DigitValue(c) == (CHOOSE i \in 1 .. 16 : Digits[i] = c) - 1

VARIABLES
    fmt, arg,       \* the parameters
    pc,             \* what vsprintf() does next
    pos,            \* fmt: index of the character it is at
    flags, width,   \* of the directive, as parsed so far
    value, left,    \* append_number(): i, and width as it is counted down
    buf,            \* _buf
    str,            \* the output so far
    start           \* history: where in it the last directive's output begins

vars == << fmt, arg, pc, pos, flags, width, value, left, buf, str, start >>
parameters == << fmt, arg >>

Init ==
    /\ fmt \in Formats
    /\ arg \in [number : Numbers, char : Characters, string : Strings]
    /\ pc = "scan" /\ pos = 1
    /\ flags = {} /\ width = 0 /\ value = 0 /\ left = 0
    /\ buf = << >> /\ str = << >> /\ start = 0

Char == IF pos <= Len(fmt) THEN fmt[pos] ELSE "nul"
Fill(n, c) == [i \in 1 .. n |-> c]      \* empty if n < 1
-----------------------------------------------------------------------------
(* The loop over the format: a character that is no % ...                  *)
Literal ==
    /\ pc = "scan" /\ Char \notin {"%", "nul"}
    /\ str' = Append(str, Char) /\ pos' = pos + 1
    /\ UNCHANGED << parameters, pc, flags, width, value, left, buf, start >>

(* ... the % of a directive ...                                            *)
Directive ==
    /\ pc = "scan" /\ Char = "%"
    /\ pc' = "flags" /\ pos' = pos + 1
    /\ flags' = {} /\ width' = 0 /\ start' = Len(str)
    /\ UNCHANGED << parameters, value, left, buf, str >>

(* ... its flags, any number of them in any order ...                      *)
FlagOf == [c \in {"-", "0", "#"} |->
    CASE c = "-" -> "LEFT_ALIGN" [] c = "0" -> "ZERO_PADDED" [] c = "#" -> "SHOW_PREFIX"]
ParseFlag ==
    /\ pc = "flags"
    /\ \/ /\ Char \in DOMAIN FlagOf
          /\ flags' = flags \cup {FlagOf[Char]} /\ pos' = pos + 1 /\ pc' = pc
       \/ /\ Char \notin DOMAIN FlagOf
          /\ pc' = "width" /\ UNCHANGED << flags, pos >>
    /\ UNCHANGED << parameters, width, value, left, buf, str, start >>

(* ... its width, digit by digit (skip_atoi()) ...                         *)
MutSkipAtoi ==
    /\ pc = "width" /\ is_digit(Char)
    /\ width' = DigitValue(Char) /\ pos' = pos + 1
    /\ UNCHANGED << parameters, pc, flags, value, left, buf, str, start >>
skip_atoi ==
    /\ pc = "width" /\ is_digit(Char)
    /\ width' = 10 * width + DigitValue(Char) /\ pos' = pos + 1
    /\ UNCHANGED << parameters, pc, flags, value, left, buf, str, start >>

(* ... and what it converts.  A number:                                    *)
Radix == [c \in {"d", "u", "p", "x", "o", "b"} |->
    CASE c \in {"d", "u"} -> 10 [] c \in {"p", "x"} -> 16 [] c = "o" -> 8 [] c = "b" -> 2]

Negative(fl) == "SIGNED" \in fl /\ arg.number >= 2 ^ (W - 1)
MutUnclamped(w) == w
Clamped(w) == IF w > BUFSIZE THEN BUFSIZE ELSE w
StartNumber ==
    /\ pc = "width" /\ Char \in DOMAIN Radix
    /\ flags' = flags \cup (CASE Char = "d" -> {"SIGNED"}
                              [] Char = "p" -> {"ZERO_PADDED", "SHOW_PREFIX"}
                              [] OTHER -> {})
    /\ width' = IF Char = "p" /\ width = 0 THEN PointerWidth ELSE width
    /\ left' = Clamped(width') /\ buf' = << >> /\ pc' = "digits"
    /\ value' = IF Negative(flags') THEN (2 ^ W - arg.number) % (2 ^ W) ELSE arg.number
    /\ UNCHANGED << parameters, pos, str, start >>

(* The condition of its do-while loop.                                     *)
MutMoreDigits(v, w) == v # 0 /\ (("LEFT_ALIGN" \in flags) \/ w > 0)
MoreDigits(v, w) == v # 0 \/ ("LEFT_ALIGN" \notin flags /\ w > 0)
AppendDigit ==
    /\ pc = "digits"
    /\ buf' = Append(buf, Digits[(value % Radix[Char]) + 1])
    /\ value' = value \div Radix[Char] /\ left' = left - 1
    /\ pc' = IF MoreDigits(value', left') THEN "digits" ELSE "number"
    /\ UNCHANGED << parameters, pos, flags, width, str, start >>

(* Then the prefix and the sign, all of it still backwards; and the copy   *)
(* to the output, where the padding of a left-aligned number follows.  A   *)
(* right-aligned number has none left.                                     *)
Prefix ==
    IF "SHOW_PREFIX" \notin flags THEN << >>
    ELSE CASE Radix[Char] = 2  -> << "b", "0" >>
           [] Radix[Char] = 8  -> << "0" >>
           [] Radix[Char] = 16 -> << "x", "0" >>
           [] OTHER -> << >>
Sign    == IF Negative(flags) THEN << "-" >> ELSE << >>
Padding == Fill(left, IF "ZERO_PADDED" \in flags THEN "0" ELSE " ")
FinishNumber ==
    /\ pc = "number"
    /\ buf' = buf \o Prefix \o Sign
                  \o (IF "LEFT_ALIGN" \in flags THEN << >> ELSE Padding)
    /\ str' = str \o Reverse(buf') \o (IF "LEFT_ALIGN" \in flags THEN Padding ELSE << >>)
    /\ pos' = pos + 1 /\ pc' = "scan"
    /\ UNCHANGED << parameters, flags, width, value, left, start >>

(* A string: padded on one side to the width.                              *)
Padded ==
    LET pad == Fill(width - Len(arg.string), " ")
    IN  IF "LEFT_ALIGN" \in flags THEN arg.string \o pad ELSE pad \o arg.string

(* Anything else: one character.  If that is the nul, the loop steps over  *)
(* it and goes on with the memory behind the format.                       *)
Convert ==
    /\ pc = "width" /\ ~is_digit(Char) /\ Char \notin DOMAIN Radix
    /\ str' = str \o (CASE Char = "c" -> << arg.char >>
                        [] Char = "s" -> Padded
                        [] OTHER      -> << Char >>)
    /\ pos' = pos + 1
    /\ pc' = IF Char = "nul" THEN "overread" ELSE "scan"
    /\ UNCHANGED << parameters, flags, width, value, left, buf, start >>

(* The end of the format.                                                  *)
Finish ==
    /\ pc = "scan" /\ Char = "nul"
    /\ str' = Append(str, "nul") /\ pc' = "done"
    /\ UNCHANGED << parameters, pos, flags, width, value, left, buf, start >>

Stopped == pc \in {"done", "overread"} /\ UNCHANGED vars

Next ==
    \/ Literal \/ Directive \/ ParseFlag \/ skip_atoi
    \/ StartNumber \/ AppendDigit \/ FinishNumber \/ Convert
    \/ Finish \/ Stopped

Spec == Init /\ [][Next]_vars
-----------------------------------------------------------------------------
(* What reaches the monitor: printk() writes its buffer up to the first    *)
(* nul.  printf() passes all of it, the final nul included, to write(),    *)
(* and tty_write() prints it character by character with printk("%c"),     *)
(* which prints nothing for a nul.                                         *)
printk == SubSeq(str, 1, (CHOOSE n \in 1 .. Len(str) :
                              str[n] = "nul" /\ \A m \in 1 .. n - 1 : str[m] # "nul") - 1)
MutPrintf == str
printf == SelectSeq(str, LAMBDA c : c # "nul")
-----------------------------------------------------------------------------
(* "This should not overrun with 32 bit parameters" (append_number()):     *)
(* _buf overruns in no case but one, a field as wide as _buf with the      *)
(* two-character prefix of base 2 or 16, and then by one character.        *)
BufferHolds ==
    \/ Len(buf) <= BUFSIZE + 1
    \/ /\ Len(buf) = BUFSIZE + 2 /\ width >= BUFSIZE
       /\ "SHOW_PREFIX" \in flags /\ "SIGNED" \notin flags

(* vsprintf() does not read behind the nul of the format, unless the       *)
(* format breaks off in the middle of a directive.                         *)
BreaksOff ==
    \E k \in 1 .. Len(fmt) :
        fmt[k] = "%" /\ \A j \in k + 1 .. Len(fmt) : fmt[j] \in {"-", "#"} \/ is_digit(fmt[j])
ReadsInsideFormat == pos > Len(fmt) + 1 => pc = "overread" /\ BreaksOff

(* Formatting stays inside its memory: _buf for what append_number()       *)
(* stores, the format for what vsprintf() reads, but for the two           *)
(* exceptions above.                                                       *)
InsideBuffers == BufferHolds /\ ReadsInsideFormat

(* The output of the directive, once str has it.                           *)
Output == SubSeq(str, start + 1, Len(str))

(* A number can be read back from its field.  Sign, prefix and digits are  *)
(* in this order, nothing but spaces follows, and the digits in the base   *)
(* of the directive make up the argument, also for the smallest negative   *)
(* number.  The exception: a left-aligned number padded with zeros.        *)
Magnitude == IF Negative(flags) THEN 2 ^ W - arg.number ELSE arg.number
ReadBack(base, field) ==
    LET mark == CASE "SHOW_PREFIX" \notin flags -> << >>
                  [] base = 2  -> << "0", "b" >>
                  [] base = 8  -> << "0" >>
                  [] base = 16 -> << "0", "x" >>
                  [] OTHER     -> << >>
        lead == Sign \o mark
        body == SelectSeq(SubSeq(field, Len(lead) + 1, Len(field)), LAMBDA c : c # " ")
    IN  /\ IsPrefix(lead \o body, field)
        /\ FoldLeft(LAMBDA n, c : n * base + DigitValue(c), 0, body) = Magnitude
NumbersReadBack ==
    [][pc = "number" /\ ~({"LEFT_ALIGN", "ZERO_PADDED"} \subseteq flags)
           => ReadBack(Radix[Char], Output')]_vars

(* A field is as wide as the digits in its directive say, or as its text   *)
(* needs: for a number, not counting sign and prefix and up to BUFSIZE;    *)
(* for a string, which stands at the side the flags ask for.               *)
WrittenWidth ==
    LET first == CHOOSE k \in 1 .. pos :
                     /\ \A j \in k .. pos - 1 : is_digit(fmt[j])
                     /\ k > 1 => ~is_digit(fmt[k - 1])
        w == FoldLeft(LAMBDA n, c : 10 * n + DigitValue(c), 0, SubSeq(fmt, first, pos - 1))
    IN  IF Char = "p" /\ w = 0 THEN PointerWidth ELSE w
Wide(n, needed) == n = IF needed < WrittenWidth THEN WrittenWidth ELSE needed
Aligned ==
    /\ pc = "number" =>
          \E n \in 1 .. W :
             /\ Magnitude < Radix[Char] ^ n /\ (n > 1 => Magnitude >= Radix[Char] ^ (n - 1))
             /\ LET digits == Len(Output') - Len(Sign) - Len(Prefix)
                IN  IF WrittenWidth > BUFSIZE THEN digits = BUFSIZE ELSE Wide(digits, n)
    /\ pc = "width" /\ Char = "s" =>
          /\ Wide(Len(Output'), Len(arg.string))
          /\ IF "LEFT_ALIGN" \in flags THEN IsPrefix(arg.string, Output')
             ELSE IsSuffix(arg.string, Output')
FieldsAligned == [][Aligned]_vars

(* The kernel's printk() and the user mode's printf() show the same text,  *)
(* although only one of them counts the final nul, if no %c prints a nul.  *)
ShownAlike == pc = "done" /\ arg.char # "nul" => printk = printf
=============================================================================
