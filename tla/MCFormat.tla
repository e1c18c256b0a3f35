------------------------------ MODULE MCFormat ------------------------------
(* Every format of up to three characters of an alphabet, and directives   *)
(* with all flags, widths around BUFSIZE and all letters, alone or before  *)
(* another character.                                                      *)
EXTENDS Format

Alphabet == {"%", "-", "0", "#", "7", "d", "p", "s", "c", "z"}
FlagTexts == { << >>, << "-" >>, << "0" >>, << "#" >>, << "-", "#" >>, << "0", "#" >>,
               << "0", "-" >>, << "#", "0", "-" >> }
WidthTexts == { << >>, << "3" >>, << "8" >>, << "9" >>, << "1", "2" >> }
MCFormats ==
    UNION { [1 .. n -> Alphabet] : n \in 0 .. 3 }
    \cup { << "%" >> \o f \o w \o << c >> \o rest :
             f \in FlagTexts, w \in WidthTexts, c \in DOMAIN Radix \cup {"c", "s"},
             rest \in { << >>, << "z" >> } }

MCStrings == { << "z", "y" >> }
=============================================================================
