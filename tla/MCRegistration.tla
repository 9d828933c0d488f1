--------------------------- MODULE MCRegistration ---------------------------
(* Small instances of RegistrationApart. *)
EXTENDS RegistrationApart, TLC

CONSTANTS ann, bob, eve, dan, annMail, bobMail, eveMail, danMail

OneUse == [c \in Codes |-> 1]
People == {<<bob, bobMail>>, <<eve, eveMail>>, <<dan, danMail>>}

Empty == {<<>>}
Upgraded == {<<>>, <<[name |-> ann, email |-> annMail, role |-> "user", status |-> "active",
                      via |-> NoCode]>>}

\* The applicants are alike.
MailOf(n) == CHOOSE e \in Emails : <<n, e>> \in People

RegistrationSymmetry ==
  {f @@ [e \in {bobMail, eveMail, danMail} |->
           MailOf(f[CHOOSE n \in {bob, eve, dan} : MailOf(n) = e])] @@ g :
     f \in Permutations({bob, eve, dan}), g \in Permutations(Workers)}
=============================================================================
