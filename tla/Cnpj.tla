-------------------------------- MODULE Cnpj --------------------------------
(***************************************************************************)
(* The registration number of a company: how one that is written becomes   *)
(* the canonical one the database holds, its two check digits, and the     *)
(* synthetic numbers of demonstrations (domain/cnpj.ts and                 *)
(* demo/synthetic-cnpj.ts). A character is the number that the code of its *)
(* own makes of it, its distance from the character 0.                     *)
(***************************************************************************)
EXTENDS Integers, Sequences

CONSTANT Invalid  \* what is no CNPJ

Digits  == 0 .. 9
Letters == 17 .. 42
Small   == 49 .. 74  \* letters before toUpperCase

\* What somebody writes: fourteen characters or some other number of them, in a
\* row, with the customary points, or among other things.
Written == [style : {"plain", "formatted", "other"}, characters : Seq(Digits \cup Letters \cup Small)]

Upper(character) == IF character \in Small THEN character - 32 ELSE character

\* CANONICAL_CNPJ, which FORMATTED_CNPJ spells with points.
Canonical(value) ==
  /\ Len(value) = 14
  /\ \A i \in 1 .. 12 : value[i] \in Digits \cup Letters
  /\ \A i \in 13 .. 14 : value[i] \in Digits

NormalizeCnpj(written) ==
  LET value == [i \in 1 .. Len(written.characters) |-> Upper(written.characters[i])]
  IN  IF written.style # "other" /\ Canonical(value) THEN value ELSE Invalid

\* Modulo 11, the weights 2 to 9 over and over from the last character.
CheckDigit(base) ==
  LET weight(i) == 2 + ((Len(base) - i) % 8)
      sum[i \in 0 .. Len(base)] == IF i = 0 THEN 0 ELSE sum[i - 1] + base[i] * weight(i)
      remainder == sum[Len(base)] % 11
  IN  IF remainder < 2 THEN 0 ELSE 11 - remainder

ComputeCnpjCheckDigits(base) ==
  LET first == CheckDigit(base) IN <<first, CheckDigit(Append(base, first))>>

\* LEGACY_REPEATED_DIGITS
Repeated(value) == \A i \in DOMAIN value : value[i] = value[1] /\ value[i] \in Digits

IsValidCnpj(cnpj) ==
  /\ cnpj # Invalid /\ ~Repeated(cnpj)
  /\ ComputeCnpjCheckDigits(SubSeq(cnpj, 1, 12)) = SubSeq(cnpj, 13, 14)

ParseCnpj(written) ==
  LET cnpj == NormalizeCnpj(written) IN IF IsValidCnpj(cnpj) THEN cnpj ELSE Invalid

\* The last digit of a repeated root is moved on. (The code fears that the number
\* be refused, but with 0001 behind its root it is never fourteen equal digits.)
GenerateSyntheticCnpj(seed) ==
  LET root == [i \in 1 .. 8 |-> seed[i] % 10]
      base == (IF Repeated(root) THEN [root EXCEPT ![8] = (@ + 1) % 10] ELSE root)
              \o <<0, 0, 0, 1>>
  IN  base \o ComputeCnpjCheckDigits(base)
=============================================================================
