----------------------------- MODULE TaxNumbers -----------------------------
(***************************************************************************)
(* The check of a tax number (INN), 10 digits for a company and 12 for an  *)
(* entrepreneur, as registration makes it (validate_tax_number), and the   *)
(* weaker one of the column Supplier.tax_number.                           *)
(*                                                                         *)
(* A text is a sequence of characters: a digit is itself, Separator is a   *)
(* blank or a dash, Letter is any other character.                         *)
(***************************************************************************)
EXTENDS Naturals, Sequences

Digit == 0 .. 9
Separator == 10
Letter == 11
Text == Seq(0 .. 11)

MaxLength == 12

(* re.sub of blanks and dashes. *)
IsKept(c) == c # Separator
Cleaned(t) == SelectSeq(t, IsKept)

AllDigits(t) == \A i \in DOMAIN t : t[i] \in Digit

(* A control digit is the weighted sum modulo 11, and 0 when that is 10. *)
ControlDigit(sum) == (sum % 11) % 10

Sum10(d) == 2 * d[1] + 4 * d[2] + 10 * d[3] + 3 * d[4] + 5 * d[5]
            + 9 * d[6] + 4 * d[7] + 6 * d[8] + 8 * d[9]

Sum12First(d) == 7 * d[1] + 2 * d[2] + 4 * d[3] + 10 * d[4] + 3 * d[5]
                 + 5 * d[6] + 9 * d[7] + 4 * d[8] + 6 * d[9] + 8 * d[10]

Sum12Second(d) == 3 * d[1] + 7 * d[2] + 2 * d[3] + 4 * d[4] + 10 * d[5]
                  + 3 * d[6] + 5 * d[7] + 9 * d[8] + 4 * d[9] + 6 * d[10]
                  + 8 * d[11]

ValidInn10(d) == ControlDigit(Sum10(d)) = d[10]

ValidInn12(d) == /\ ControlDigit(Sum12First(d)) = d[11]
                 /\ ControlDigit(Sum12Second(d)) = d[12]

(* A number as registration stores it. *)
IsTaxNumber(t) ==
    /\ AllDigits(t)
    /\ \/ Len(t) = 10 /\ ValidInn10(t)
       \/ Len(t) = 12 /\ ValidInn12(t)

(* What registration accepts; the length is that of the text as sent. *)
Registrable(t) == Len(t) <= MaxLength /\ IsTaxNumber(Cleaned(t))

(* What the column accepts: ^\d{10}|\d{12}$ is searched for, and binds as  *)
(* "starts with ten digits, or ends with twelve".                          *)
Storable(t) ==
    /\ Len(t) \in 10 .. MaxLength
    /\ AllDigits(SubSeq(t, 1, 10))
=============================================================================
