---------------------------- MODULE MCCompanies ----------------------------
(***************************************************************************)
(* A small instance of Companies: ana has a company, bia works in it, and  *)
(* the products of its stock were created in one instant. One CNPJ is      *)
(* written in two ways, the other has letters, the last a wrong digit.     *)
(***************************************************************************)
EXTENDS Companies, TLC

CONSTANTS ana, bia

Plain(characters) == [style |-> "plain", characters |-> characters]
Formatted(characters) == [style |-> "formatted", characters |-> characters]

\* 11222333000181 and 12ABC34501DE35, and the latter with small letters.
MCNumber == <<1, 1, 2, 2, 2, 3, 3, 3, 0, 0, 0, 1, 8, 1>>
MCLetters == <<1, 2, 17, 18, 19, 3, 4, 5, 0, 1, 20, 21, 3, 5>>
MCSmall == [i \in 1 .. 14 |-> IF MCLetters[i] > 9 THEN MCLetters[i] + 32 ELSE MCLetters[i]]

MCWritings ==
  {Plain(MCNumber), Plain(MCLetters), Formatted(MCSmall), Plain([MCNumber EXCEPT ![14] = 2])}

MCRow(table, number, of, owner) ==
  [id |-> <<table, number>>, of |-> of, owner |-> owner, createdAt |-> 1]

MCRows ==
  {MCRow("companies", 1, MCNumber, ana), MCRow("stocks", 1, <<"companies", 1>>, None),
   MCRow("products", 1, <<"stocks", 1>>, None), MCRow("products", 3, <<"stocks", 1>>, None)}

\* bia is a collaborator of the company, and sees its stock.
MCCollaborators == {<<bia, <<"companies", 1>>>>}
MCViewers == {<<bia, <<"stocks", 1>>>>}

AnyCreation == Permutations(Creations)

=============================================================================
