-------------------------- MODULE MCNameReduction --------------------------
(***************************************************************************)
(* Symbols for NameReduction.                                              *)
(***************************************************************************)
EXTENDS NameReduction, TLC

CONSTANT MaxLength      \* bound on the length of an identifier

Few == {"_", "Z", "N", "f", "0", "1", "2"}
TheCharacters == Few \cup Range(Digits) \cup {"v", ".text", ".plt"}

\* Any short symbol, and any short rest of a C++ symbol
Short == UNION {[1 .. n -> Few] : n \in 0 .. 3}
SomeSymbols ==
    Short \cup {<<"_", "Z">> \o s : s \in Short} \cup {<<".text">>, <<".plt">>}

\* Identifiers of every length: letters, with a digit inside, or at the end
SomeFunctions ==
    {[id |-> [k \in 1 .. n |-> IF k = d THEN "0" ELSE "f"], args |-> a] :
        n \in 1 .. MaxLength, d \in {0, 2, 11}, a \in {<<"v">>, <<"1", "N">>}}

TheAddress == <<"0", "x", "F">>
NotFound == <<"Invalid">>
=============================================================================
