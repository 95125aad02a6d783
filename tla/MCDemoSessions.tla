--------------------------- MODULE MCDemoSessions ---------------------------
(***************************************************************************)
(* Small instances of DemoSessions.                                        *)
(***************************************************************************)
EXTENDS DemoSessions

CONSTANTS ana, bia, k0, k1, k2

\* The owners are interchangeable: the first command is ana's.
AnaFirst == <<{ana}, {ana, bia}, {ana, bia}>>

\* The second and the third make one CNPJ, for the second is a repeated root and
\* is moved on; so do bytes above ten.
Bytes == {<<4, 0, 0, 0, 0, 0, 0, 1>>, <<7, 7, 7, 7, 7, 7, 7, 7>>, <<7, 17, 7, 7, 77, 7, 7, 8>>,
          <<250, 1, 2, 3, 4, 5, 6, 9>>}

n0 == <<4, 0, 0, 0, 0, 0, 0, 1, 0, 0, 0, 1, 5, 0>>
n1 == <<7, 7, 7, 7, 7, 7, 7, 8, 0, 0, 0, 1, 3, 6>>
n2 == <<0, 1, 2, 3, 4, 5, 6, 9, 0, 0, 0, 1, 8, 4>>

Taken == {n0}

\* Identities that collide in the CNPJ, in the key, in neither, with a company
\* that is no demonstration and with a processed invoice.
Colliding ==
  {[cnpj |-> n1, key |-> k1], [cnpj |-> n2, key |-> k2], [cnpj |-> n1, key |-> k2],
   [cnpj |-> n0, key |-> k1], [cnpj |-> n2, key |-> k0]}

=============================================================================
