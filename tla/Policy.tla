------------------------------- MODULE Policy -------------------------------
(***************************************************************************)
(* Bucket policies (policy.rs).  An ARN, an action and a user name are     *)
(* sequences of tokens, a pattern is one that may hold Star; letter case   *)
(* and the JSON around them are left out.  A document is a sequence of     *)
(* statements, or None where the bucket has none.  PutBucketPolicy stores  *)
(* parsable documents only.                                                *)
(***************************************************************************)
EXTENDS Naturals, Sequences, SequencesExt

CONSTANTS Star, Anonymous, None

-----------------------------------------------------------------------------
(* wildcard_match *)

\* pattern.split('*')
Parts(pattern) ==
  LET stars == SetToSortSeq({i \in DOMAIN pattern : pattern[i] = Star}, <)
      cuts == <<0>> \o stars \o <<Len(pattern) + 1>>
  IN [i \in 1..(Len(stars) + 1) |-> SubSeq(pattern, cuts[i] + 1, cuts[i + 1] - 1)]

\* Where `part` occurs in `text`, by the number of tokens before it.
Occurrences(part, text) ==
  {n \in 0..(Len(text) - Len(part)) : SubSeq(text, n + 1, n + Len(part)) = part}

\* What is left of the text, or None, once part i of n has been matched: the
\* first is a prefix, the last a suffix, the others the first occurrence.
TakePart(left, part, i, n) ==
  LET at == IF left = None THEN {} ELSE Occurrences(part, left)
      first == CHOOSE m \in at : \A o \in at : m <= o
  IN IF left = None \/ part = <<>> THEN left
     ELSE IF i = 1 THEN IF 0 \in at THEN SubSeq(left, Len(part) + 1, Len(left)) ELSE None
     ELSE IF i = n THEN IF Len(left) - Len(part) \in at THEN left ELSE None
     ELSE IF at = {} THEN None ELSE SubSeq(left, first + Len(part) + 1, Len(left))

WildcardMatch(pattern, text) ==
  LET parts == Parts(pattern) IN
  IF Len(parts) = 1 THEN pattern = text
  ELSE FoldLeft(LAMBDA left, i : TakePart(left, parts[i], i, Len(parts)),
                text, [i \in DOMAIN parts |-> i]) # None

MatchesAny(patterns, text) == \E p \in patterns : WildcardMatch(p, text)

\* What a pattern means: the tokens of the text are dealt out, in order, to the
\* tokens of the pattern, one to each, any number to a star.
Glob(pattern, text) ==
  \E end \in [0..Len(pattern) -> 0..Len(text)] :
    /\ end[0] = 0 /\ end[Len(pattern)] = Len(text)
    /\ \A i \in DOMAIN pattern :
         IF pattern[i] = Star THEN end[i - 1] <= end[i]
         ELSE end[i] = end[i - 1] + 1 /\ text[end[i]] = pattern[i]

-----------------------------------------------------------------------------
(* PrincipalValue and eval_policy *)

\* [string |-> whether it is a bare string, names |-> patterns]: a map without
\* "AWS" has no names.
IsPublic(principal) == <<Star>> \in principal.names

\* A bare string other than * matches everybody too (policy.rs:107).
MatchesUser(principal, user) ==
  principal.string \/ IsPublic(principal) \/ MatchesAny(principal.names, <<user>>)

\* A statement of another effect is skipped; Block Public Access takes public
\* Allow statements from anonymous users.  Conditions are parsed and ignored.
Applies(stmt, ask, user, block) ==
  /\ stmt.effect \in {"Allow", "Deny"}
  /\ ~(user = Anonymous /\ stmt.effect = "Allow" /\ IsPublic(stmt.principal) /\ block)
  /\ MatchesUser(stmt.principal, user)
  /\ MatchesAny(stmt.actions, ask.action)
  /\ MatchesAny(stmt.resources, ask.resource)

EvalPolicy(doc, ask, user, block) ==
  FoldLeft(LAMBDA verdict, stmt : IF verdict # "Deny" /\ Applies(stmt, ask, user, block)
                                  THEN stmt.effect ELSE verdict,
           "NoMatch", doc)

\* doc.is_public(), which PutBucketPolicy asks under Block Public Access.
DocIsPublic(doc) ==
  \E i \in DOMAIN doc : doc[i].effect = "Allow" /\ IsPublic(doc[i].principal)

\* What policies promise: a statement covers those it names, and one that denies
\* beats all that allow.
Meant(doc, ask, user, block) ==
  LET covers(stmt) ==
        /\ \E p \in stmt.principal.names : Glob(p, <<user>>)
        /\ \E p \in stmt.actions : Glob(p, ask.action)
        /\ \E p \in stmt.resources : Glob(p, ask.resource)
      said(effect) == {stmt \in ToSet(doc) : stmt.effect = effect /\ covers(stmt)}
      open == {stmt \in said("Allow") :
                 ~(block /\ user = Anonymous /\ <<Star>> \in stmt.principal.names)}
  IN IF said("Deny") # {} THEN "Deny" ELSE IF open # {} THEN "Allow" ELSE "NoMatch"
=============================================================================
