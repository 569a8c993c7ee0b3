-------------------------- MODULE MCDomainRefresh --------------------------
(* Values for the constants of DomainRefresh that a cfg cannot write. *)
EXTENDS DomainRefresh

CONSTANTS foo, wwwFoo

\* a domain with its www. form
MCNormalize == [n \in Names |-> IF n = wwwFoo THEN foo ELSE n]
=============================================================================
