--------------------------- MODULE NameReduction ---------------------------
(***************************************************************************)
(* FormProperFunctionName of the pintool: the name under which a routine   *)
(* is entered in the tables of CallTrace, from the symbol Pin found.  A    *)
(* symbol is a sequence of characters, except that .text and .plt are one  *)
(* character each here.                                                    *)
(*                                                                         *)
(* C++ symbols start with _Z.  The loop collects the digits that follow,   *)
(* one a step, as long as the number that starts at the next character is  *)
(* not 0; so many characters behind them are the name.                     *)
(***************************************************************************)
EXTENDS Naturals, SequencesExt

CONSTANTS
    Characters,
    Symbols,            \* symbols of any form
    Functions,          \* C++ functions: their identifier, and what their
                        \* symbol has behind it
    Invalid, Address    \* the names of a routine without a symbol, and of one
                        \* in .text: its address

Digits == <<"0", "1", "2", "3", "4", "5", "6", "7", "8", "9">>
MangledPrefix == <<"_", "Z">>
Terminator == "\\0"
IsDigit(c) == Contains(Digits, c)

\* An identifier does not begin with a digit.
ASSUME NameAssumption ==
    /\ Range(Digits) \subseteq Characters /\ MangledPrefix \in Seq(Characters)
    /\ Symbols \subseteq Seq(Characters)
    /\ \A f \in Functions :
          /\ f.id \in Seq(Characters) /\ f.args \in Seq(Characters)
          /\ f.id # <<>> /\ ~ IsDigit(Head(f.id))

VARIABLES pc, symbol, name, i, temp

vars == <<pc, symbol, name, i, temp>>

-----------------------------------------------------------------------------
\* atoi of the characters from position k on, counted from 0: their leading
\* digits, and 0 if there are none.
DigitsAt(s, k) ==
    CHOOSE n \in 0 .. Len(s) - k :
        /\ \A j \in k + 1 .. k + n : IsDigit(s[j])
        /\ k + n < Len(s) => ~ IsDigit(s[k + n + 1])
Value(c) == (CHOOSE d \in 1 .. 10 : Digits[d] = c) - 1
Atoi(s, k) ==
    LET upto[j \in 0 .. DigitsAt(s, k)] ==
            IF j = 0 THEN 0 ELSE 10 * upto[j - 1] + Value(s[k + j])
    IN  upto[DigitsAt(s, k)]

\* The symbol of a C++ function that is not a member of anything
Decimal[n \in Nat] ==
    IF n < 10 THEN <<Digits[n + 1]>>
    ELSE Append(Decimal[n \div 10], Digits[(n % 10) + 1])
Mangled(f) == MangledPrefix \o Decimal[Len(f.id)] \o f.id \o f.args

-----------------------------------------------------------------------------
Init ==
    /\ pc = "start"
    /\ symbol \in Symbols \cup {Mangled(f) : f \in Functions}
    /\ name = symbol /\ i = 0 /\ temp = <<>>

Special == [s \in {<<>>, <<".text">>, <<".plt">>} |->
    CASE s = <<>> -> Invalid [] s = <<".text">> -> Address [] OTHER -> <<"Library_Call">>]

IsMangled == IsPrefix(MangledPrefix, name)

Form ==
    /\ pc = "start"
    /\ \/ /\ name \in DOMAIN Special
          /\ name' = Special[name] /\ pc' = "done"
       \/ /\ name \notin DOMAIN Special /\ ~ IsMangled
          /\ name' = name /\ pc' = "done"
       \/ /\ IsMangled
          /\ name' = SubSeq(name, 3, Len(name)) /\ pc' = "scan"
    /\ UNCHANGED <<symbol, i, temp>>

CharAt(s, k) == IF k < Len(s) THEN s[k + 1] ELSE Terminator

\* while((atoi(&name[i])) != 0)
GoesOn_AtFirst(s, k) == Atoi(s, 0) # 0
GoesOn(s, k) == Atoi(s, k) # 0

Scan ==
    /\ pc = "scan" /\ GoesOn(name, i)
    /\ temp' = Append(temp, CharAt(name, i))
    /\ i' = i + 1
    /\ UNCHANGED <<pc, symbol, name>>

\* name.erase(0, i); name.substr(0, atoi(temp)), which stops at the end
Part_Longer(s, k, n) ==
    SubSeq(s, k + 1, IF k + n + 1 > Len(s) THEN Len(s) ELSE k + n + 1)
Part(s, k, n) == SubSeq(s, k + 1, IF k + n > Len(s) THEN Len(s) ELSE k + n)

Cut ==
    /\ pc = "scan" /\ ~ GoesOn(name, i)
    /\ name' = Part(name, i, Atoi(temp, 0))
    /\ pc' = "done"
    /\ UNCHANGED <<symbol, i, temp>>

Next == Form \/ Scan \/ Cut

Spec == Init /\ [][Next]_vars

-----------------------------------------------------------------------------
\* Properties

\* The loop reads no character behind the end of the symbol, whatever symbol
\* Pin found, one of digits only included: &name[i] is the terminator at most.
ScanInRange == pc = "scan" => i <= Len(name)

\* A C++ function whose identifier follows _Z (no member, no operator, not
\* internal to its file) is entered under this identifier, however its
\* parameters go on behind it; unless the length of the identifier ends in 0:
\* the loop stops before that 0, and the name begins with it and is cut off.
NameIsIdentifier ==
    \A f \in Functions :
        LET n == Len(f.id) IN
        pc = "done" /\ symbol = Mangled(f) =>
            IF n % 10 # 0 THEN name = f.id
            ELSE Head(name) = "0" /\ Len(name) < n
=============================================================================
