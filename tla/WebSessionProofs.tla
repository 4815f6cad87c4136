-------------------------- MODULE WebSessionProofs --------------------------
(***************************************************************************)
(* Proofs about WebSession and the AuthService behind it, for any number   *)
(* of tabs, requests and refreshes, and any bounds.                        *)
(*                                                                         *)
(* The invariant has three parts.  ServerInv is about the servers alone:   *)
(* what a call holds at each of its steps.  PageInv ties what the pages    *)
(* wait for to the calls.  Both are inductive by themselves, page by page. *)
(* Ledger is what an undisturbed family rests on: one refresh of it at a   *)
(* time, and the cookie of the browser alive, or being replaced.  With it, *)
(* Forking says what a refresh that has passed the check knows of the      *)
(* tokens its own has been given for already; the number of live tokens    *)
(* follows by counting.                                                    *)
(***************************************************************************)
EXTENDS WebSession, FiniteSetTheorems, SequenceTheorems, TLAPS

Kinds == {"none", "data", "login", "logout", "refresh"}

Steps == {"idle", "sent", "admitted", "forwarded", "matched", "scanned", "reused", "found",
          "rotating", "ok", "unauthorized", "failed"}

CallRecords == [kind : Kinds, pc : Steps, jti : Nat, cookie : Nat, issued : Nat,
                since : Nat]

TokenRecords == [family : Nat, parent : Nat, since : Nat, revoked : BOOLEAN, age : Nat]

PageRecords ==
  [tab : Tabs \cup {NoTab}, st : {"none", "waiting", "queued", "refreshing"}, kind : Kinds,
   retry : BOOLEAN, of : Requests \cup {NoRequest}]

Known == 0 .. Len(tokens)

-----------------------------------------------------------------------------
(* The servers. *)

TokensOK ==
  /\ tokens \in Seq(TokenRecords)
  /\ \A n \in Issued : tokens[n].family \in 1 .. n /\ tokens[n].parent \in 0 .. n - 1

(* What a call holds at each of its steps. *)
CallOK(c, k) ==
  /\ k \in CallRecords
  /\ k.jti \in Known /\ k.cookie \in Known /\ k.issued \in Known /\ k.since \in Known
  /\ k.kind = "none" => k.pc \in {"idle", "ok", "unauthorized", "failed"} /\ k.cookie = 0
  /\ k.kind = "data" => k.pc = "sent" /\ c \in Requests
  /\ k.kind = "login" =>
       /\ k.pc \in {"sent", "ok"} /\ c \in Requests
       /\ k.pc = "ok" => k.issued # 0 /\ Family(k.issued) = k.issued
  /\ k.kind = "refresh" =>
       /\ k.pc \in {"sent", "reused", "found", "rotating", "ok"} /\ c \in Refreshes
       /\ k.pc # "sent" => k.cookie # 0
       /\ k.pc = "rotating" => tokens[k.cookie].revoked
       /\ k.pc = "ok" => k.issued # 0 /\ Family(k.issued) = Family(k.cookie)
  /\ k.kind = "logout" =>
       /\ k.pc \in {"sent", "admitted", "forwarded", "matched", "scanned", "ok"} /\ c \in Requests
       /\ k.pc = "matched" => k.cookie # 0
       /\ k.pc \in {"forwarded", "matched", "scanned", "ok"} => k.jti \in revokedJti
       /\ k.pc \in {"scanned", "ok"} /\ Usable(k.cookie) => tokens[k.cookie].revoked

HoldsRight(c) == CallOK(c, call[c])

ServerInv ==
  /\ TokensOK
  /\ revokedJti \subseteq Nat
  /\ call \in [Calls -> CallRecords]
  /\ \A c \in Calls : HoldsRight(c)
  /\ ReplacedIsRevoked

(* What no step of the servers takes back. *)
TokensGrow ==
  /\ TokensOK'
  /\ Len(tokens') >= Len(tokens)
  /\ \A n \in Issued :
       /\ tokens'[n].family = tokens[n].family /\ tokens'[n].parent = tokens[n].parent
       /\ tokens'[n].since = tokens[n].since
       /\ tokens[n].revoked => tokens'[n].revoked
       /\ tokens'[n].age >= tokens[n].age
  /\ revokedJti \subseteq revokedJti' /\ revokedJti' \subseteq Nat

LEMMA LenFacts ==
  ASSUME TokensOK
  PROVE  /\ Len(tokens) \in Nat /\ Issued = 1 .. Len(tokens) /\ 0 \in Known
         /\ \A n \in Known : n # 0 => n \in Issued
         /\ \A n \in Issued : tokens[n] \in TokenRecords /\ n \in Known
BY DEF TokensOK, Issued, Known

(* What a call holds it keeps while others move. *)
LEMMA CallKept ==
  ASSUME TokensOK, TokensGrow, NEW c, NEW k, CallOK(c, k)
  PROVE  CallOK(c, k)'
<1>1. Len(tokens) \in Nat /\ Len(tokens') \in Nat
  BY DEF TokensOK, TokensGrow
<1>2. \A n \in Known : n \in Known'
  BY <1>1 DEF TokensGrow, Known
<1>3. \A n \in Known : n # 0 => n \in Issued
  BY <1>1 DEF Known, Issued
<1>4. \A n \in Known : Family(n)' = Family(n)
  BY <1>3 DEF TokensGrow, Family
<1>5. \A n \in Known : n # 0 /\ Usable(n)' => Usable(n)
  <2> SUFFICES ASSUME NEW n \in Known, n # 0, tokens'[n].age < 2
               PROVE  tokens[n].age < 2
    BY DEF Usable
  <2>1. n \in Issued /\ n \in Issued'
    BY <1>1, <1>2, <1>3 DEF Issued, Known, TokensGrow
  <2>2. tokens[n] \in TokenRecords
    BY <2>1 DEF TokensOK, Issued
  <2>3. tokens'[n] \in TokenRecords
    BY <2>1 DEF TokensOK, TokensGrow, Issued
  <2>4. tokens[n].age \in Nat /\ tokens'[n].age \in Nat
    BY <2>2, <2>3 DEF TokenRecords
  <2>5. tokens'[n].age >= tokens[n].age
    BY <2>1 DEF TokensGrow
  <2> QED
    BY <2>4, <2>5
<1>6. \A n \in Known : n # 0 /\ tokens[n].revoked => tokens'[n].revoked
  BY <1>3 DEF TokensGrow
<1>7. revokedJti \subseteq revokedJti'
  BY DEF TokensGrow
<1>8. Usable(k.cookie)' => k.cookie # 0
  BY DEF Usable
<1> QED
  BY <1>2, <1>4, <1>5, <1>6, <1>7, <1>8 DEF CallOK

(* A step that lets the tokens grow, and leaves each call as it was or in  *)
(* a state that is right.                                                  *)
LEMMA ServerStepInv ==
  ASSUME ServerInv, TokensGrow, ReplacedIsRevoked', DOMAIN call' = Calls,
         \A c \in Calls : call'[c] = call[c] \/ HoldsRight(c)',
         call' = [c \in Calls |-> call'[c]]
  PROVE  ServerInv'
<1>1. ASSUME NEW c \in Calls PROVE HoldsRight(c)'
  <2>1. CASE call'[c] = call[c]
    <3>1. PICK k : k = call[c]
      OBVIOUS
    <3>2. CallOK(c, k)
      BY <3>1 DEF ServerInv, HoldsRight
    <3>3. CallOK(c, k)'
      BY <3>2, CallKept DEF ServerInv
    <3>4. k = call'[c]
      BY <2>1, <3>1
    <3> QED
      BY <3>3, <3>4 DEF HoldsRight
  <2> QED
    BY <2>1
<1>2. \A c \in Calls : call'[c] \in CallRecords
  BY <1>1 DEF CallOK, HoldsRight
<1>3. call' \in [Calls -> CallRecords]
  BY <1>2
<1> QED
  BY <1>1, <1>3 DEF ServerInv, TokensGrow

(* The tokens as they were. *)
LEMMA TokensStay ==
  ASSUME ServerInv, UNCHANGED tokens, revokedJti \subseteq revokedJti', revokedJti' \subseteq Nat
  PROVE  /\ TokensGrow /\ ReplacedIsRevoked'
         /\ Known' = Known /\ Issued' = Issued
         /\ \A n : Family(n)' = Family(n) /\ Usable(n)' = Usable(n)
<1>1. TokensOK' /\ Known' = Known /\ Issued' = Issued
      /\ \A n : Family(n)' = Family(n) /\ Usable(n)' = Usable(n)
  BY DEF ServerInv, TokensOK, Issued, Known, Family, Usable
<1>2. ReplacedIsRevoked'
  BY <1>1 DEF ServerInv, ReplacedIsRevoked
<1>3. Len(tokens) \in Nat
  BY DEF ServerInv, TokensOK
<1>4. \A n \in Issued : tokens[n].age \in Nat
  <2>1. \A n \in Issued : tokens[n] \in TokenRecords
    BY LenFacts DEF ServerInv
  <2> QED
    BY <2>1 DEF TokenRecords
<1> QED
  BY <1>1, <1>2, <1>3, <1>4 DEF TokensGrow

(* The two ways in which a server leaves a call. *)
LEMMA BecomesEffect ==
  ASSUME ServerInv, NEW c \in Calls, NEW pc \in Steps, Becomes(c, pc)
  PROVE  /\ DOMAIN call' = Calls /\ call' = [d \in Calls |-> call'[d]]
         /\ call'[c] \in CallRecords
         /\ call'[c].kind = call[c].kind /\ call'[c].pc = pc /\ call'[c].jti = call[c].jti
         /\ call'[c].cookie = call[c].cookie /\ call'[c].issued = call[c].issued
         /\ call'[c].since = call[c].since
         /\ \A d \in Calls : d # c => call'[d] = call[d]
<1>1. call[c] \in CallRecords
  BY DEF ServerInv
<1> QED
  BY <1>1 DEF ServerInv, Becomes, CallRecords

LEMMA AnswersEffect ==
  ASSUME ServerInv, NEW c \in Calls, NEW pc \in Answered, Answers(c, pc), TokensOK'
  PROVE  /\ DOMAIN call' = Calls /\ call' = [d \in Calls |-> call'[d]]
         /\ HoldsRight(c)'
         /\ call'[c].kind = "none" /\ call'[c].pc = pc /\ call'[c].cookie = 0
         /\ \A d \in Calls : d # c => call'[d] = call[d]
<1>1. call'[c] = [Idle EXCEPT !.pc = pc] /\ \A d \in Calls : d # c => call'[d] = call[d]
  BY DEF ServerInv, Answers
<1>2. /\ call'[c] \in CallRecords /\ call'[c].kind = "none" /\ call'[c].pc = pc
      /\ call'[c].cookie = 0 /\ call'[c].jti = 0 /\ call'[c].issued = 0 /\ call'[c].since = 0
  BY <1>1 DEF Idle, Answered, CallRecords, Kinds, Steps
<1>3. HoldsRight(c)'
  <2>1. 0 \in Known'
    BY DEF TokensOK, Known
  <2> QED
    BY <1>2, <2>1 DEF HoldsRight, CallOK, Answered
<1>4. DOMAIN call' = Calls /\ call' = [d \in Calls |-> call'[d]]
  BY DEF ServerInv, Answers
<1> QED
  BY <1>1, <1>2, <1>3, <1>4

(* An answer, with nothing done. *)
LEMMA AnswersInv ==
  ASSUME ServerInv, NEW c \in Calls, NEW pc \in Answered, Answers(c, pc),
         UNCHANGED <<tokens, revokedJti>>
  PROVE  ServerInv' /\ TokensGrow
<1>1. TokensGrow /\ ReplacedIsRevoked'
  BY TokensStay DEF ServerInv
<1>2. TokensOK'
  BY <1>1 DEF TokensGrow
<1> QED
  BY <1>1, <1>2, AnswersEffect, ServerStepInv

(* The call goes on, with no token changed. *)
LEMMA BecomesInv ==
  ASSUME ServerInv, NEW c \in Calls, NEW pc \in Steps, Becomes(c, pc),
         UNCHANGED tokens, revokedJti \subseteq revokedJti', revokedJti' \subseteq Nat,
         HoldsRight(c)'
  PROVE  ServerInv' /\ TokensGrow
<1>1. TokensGrow /\ ReplacedIsRevoked'
  BY TokensStay
<1> QED
  BY <1>1, BecomesEffect, ServerStepInv

LEMMA GatewayInv ==
  ASSUME ServerInv, NEW c \in Calls, Admit(c) \/ RevokeAccessToken(c)
  PROVE  ServerInv' /\ TokensGrow
<1>1. CASE Admit(c) /\ call[c].kind = "data"
  BY <1>1, AnswersInv DEF Admit, Answered
<1>2. CASE Admit(c) /\ call[c].kind = "logout"
  <2>1. Becomes(c, "admitted") /\ UNCHANGED <<tokens, revokedJti>>
    BY <1>2 DEF Admit
  <2>2. HoldsRight(c)
    BY DEF ServerInv
  <2>3. HoldsRight(c)'
    BY <1>2, <2>1, <2>2, BecomesEffect, TokensStay
    DEF HoldsRight, CallOK, Steps, ServerInv
  <2> QED
    BY <2>1, <2>3, BecomesInv DEF Steps, ServerInv
<1>3. CASE RevokeAccessToken(c)
  <2>1. /\ Becomes(c, "forwarded") /\ UNCHANGED tokens
        /\ revokedJti' = revokedJti \cup {call[c].jti}
    BY <1>3 DEF RevokeAccessToken
  <2>2. HoldsRight(c) /\ call[c].jti \in Nat
    BY DEF ServerInv, CallRecords
  <2>3. revokedJti \subseteq revokedJti' /\ revokedJti' \subseteq Nat
    BY <2>1, <2>2 DEF ServerInv
  <2>4. HoldsRight(c)'
    BY <1>3, <2>1, <2>2, <2>3, BecomesEffect, TokensStay
    DEF HoldsRight, CallOK, Steps, RevokeAccessToken, At
  <2> QED
    BY <2>1, <2>3, <2>4, BecomesInv DEF Steps
<1> QED
  BY <1>1, <1>2, <1>3 DEF Admit, Protected

LEMMA LogoutInv ==
  ASSUME ServerInv, NEW c \in Calls, ScanForLogout(c) \/ FinishLogout(c)
  PROVE  ServerInv' /\ TokensGrow
<1>1. HoldsRight(c) /\ call[c].jti \in Nat
  BY DEF ServerInv, CallRecords
<1>2. CASE ScanForLogout(c)
  <2>1. PICK pc \in Steps :
          /\ pc = IF Usable(call[c].cookie) /\ ~tokens[call[c].cookie].revoked
                  THEN "matched" ELSE "scanned"
          /\ Becomes(c, pc)
    BY <1>2 DEF ScanForLogout, Steps
  <2>2. At(c, "logout", "forwarded") /\ UNCHANGED <<tokens, revokedJti>>
    BY <1>2 DEF ScanForLogout
  <2>3. HoldsRight(c)'
    BY <1>1, <2>1, <2>2, BecomesEffect, TokensStay DEF HoldsRight, CallOK, At, Usable, ServerInv
  <2> QED
    BY <2>1, <2>2, <2>3, BecomesInv DEF ServerInv
<1>3. CASE FinishLogout(c)
  <2>1. /\ Becomes(c, "ok") /\ UNCHANGED tokens /\ At(c, "logout", "scanned")
        /\ revokedJti' = revokedJti \cup {call[c].jti}
    BY <1>3 DEF FinishLogout
  <2>2. revokedJti \subseteq revokedJti' /\ revokedJti' \subseteq Nat
    BY <1>1, <2>1 DEF ServerInv
  <2>3. HoldsRight(c)'
    BY <1>1, <2>1, <2>2, BecomesEffect, TokensStay DEF HoldsRight, CallOK, At, Steps
  <2> QED
    BY <2>1, <2>2, <2>3, BecomesInv DEF Steps
<1> QED
  BY <1>2, <1>3

LEMMA FindTokenInv ==
  ASSUME ServerInv, NEW c \in Calls, FindToken(c)
  PROVE  ServerInv' /\ TokensGrow
<1>1. HoldsRight(c)
  BY DEF ServerInv
<1>2. CASE ~Usable(call[c].cookie)
  BY <1>2, AnswersInv DEF FindToken, Answered
<1>3. CASE Usable(call[c].cookie)
  <2>1. PICK pc \in {"reused", "found"} : Becomes(c, pc)
    BY <1>3 DEF FindToken
  <2>2. At(c, "refresh", "sent") /\ UNCHANGED <<tokens, revokedJti>>
    BY DEF FindToken
  <2>3. HoldsRight(c)'
    BY <1>1, <1>3, <2>1, <2>2, BecomesEffect, TokensStay
    DEF HoldsRight, CallOK, At, Usable, Steps, ServerInv
  <2> QED
    BY <2>1, <2>2, <2>3, BecomesInv DEF Steps, ServerInv
<1> QED
  BY <1>2, <1>3

(* Tokens revoked, or aged, and none issued. *)
LEMMA TokensMarked ==
  ASSUME ServerInv, UNCHANGED revokedJti,
         tokens' \in Seq(TokenRecords), Len(tokens') = Len(tokens),
         \A n \in Issued :
           /\ tokens'[n].family = tokens[n].family /\ tokens'[n].parent = tokens[n].parent
           /\ tokens'[n].since = tokens[n].since
           /\ tokens[n].revoked => tokens'[n].revoked
           /\ tokens'[n].age >= tokens[n].age
  PROVE  /\ TokensGrow /\ ReplacedIsRevoked'
         /\ Known' = Known /\ Issued' = Issued
         /\ \A n \in Known : Family(n)' = Family(n)
<1>1. Known' = Known /\ Issued' = Issued /\ Len(tokens) \in Nat
  BY LenFacts DEF Known, Issued, ServerInv
<1>2. TokensOK'
  BY <1>1 DEF ServerInv, TokensOK
<1>3. \A n \in Known : Family(n)' = Family(n)
  BY LenFacts DEF Family, ServerInv
<1>4. ReplacedIsRevoked'
  <2> SUFFICES ASSUME NEW n \in Issued
               PROVE  IF tokens'[n].parent = 0 THEN tokens'[n].family = n
                      ELSE /\ tokens'[tokens'[n].parent].revoked
                           /\ tokens'[n].family = tokens'[tokens'[n].parent].family
    BY <1>1 DEF ReplacedIsRevoked
  <2>1. PICK old : old = tokens[n].parent
    OBVIOUS
  <2>2. old \in 0 .. n - 1
    BY <2>1 DEF ServerInv, TokensOK
  <2>3. old # 0 => old \in Issued
    BY <1>1, <2>2 DEF Issued
  <2>4. tokens'[n].parent = old /\ tokens'[n].family = tokens[n].family
    BY <2>1
  <2>5. IF old = 0 THEN tokens[n].family = n
        ELSE tokens[old].revoked /\ tokens[n].family = tokens[old].family
    BY <2>1 DEF ServerInv, ReplacedIsRevoked
  <2> QED
    BY <2>3, <2>4, <2>5
<1> QED
  BY <1>1, <1>2, <1>3, <1>4 DEF TokensGrow, ServerInv

(* An UPDATE that revokes one token. *)
Revokes(k) == tokens' = [tokens EXCEPT ![k].revoked = TRUE]

LEMMA RevokedOne ==
  ASSUME TokensOK, NEW k \in Issued, Revokes(k)
  PROVE  /\ tokens' \in Seq(TokenRecords) /\ Len(tokens') = Len(tokens)
         /\ tokens'[k].revoked
         /\ \A n \in Issued :
              /\ tokens'[n].family = tokens[n].family /\ tokens'[n].parent = tokens[n].parent
              /\ tokens'[n].since = tokens[n].since
              /\ tokens'[n].age = tokens[n].age /\ tokens[n].age \in Nat
              /\ tokens[n].revoked => tokens'[n].revoked
              /\ n # k => tokens'[n] = tokens[n]
<1>1. \A n \in Issued : tokens[n] \in TokenRecords
  BY LenFacts
<1>2. PICK row : row = [tokens[k] EXCEPT !.revoked = TRUE]
  OBVIOUS
<1>3. /\ row \in TokenRecords /\ row.revoked /\ row.family = tokens[k].family
      /\ row.parent = tokens[k].parent /\ row.age = tokens[k].age /\ row.since = tokens[k].since
  BY <1>1, <1>2 DEF TokenRecords
<1>31. row \in TokenRecords /\ tokens \in Seq(TokenRecords) /\ k \in 1 .. Len(tokens)
  BY <1>3 DEF TokensOK, Issued
<1>4. tokens' = [tokens EXCEPT ![k] = row]
  BY <1>2 DEF Revokes
<1>5. tokens' \in Seq(TokenRecords) /\ Len(tokens') = Len(tokens)
  BY <1>31, <1>4, ExceptSeq
<1>6. \A n \in Issued : tokens'[n] = IF n = k THEN row ELSE tokens[n]
  BY <1>31, <1>4, ExceptSeq DEF Issued
<1>7. \A n \in Issued : tokens[n].age \in Nat
  BY <1>1 DEF TokenRecords
<1> QED
  BY <1>3, <1>5, <1>6, <1>7

LEMMA RevokeOneInv ==
  ASSUME ServerInv, NEW c \in Calls, RevokeOld(c) \/ RevokeOwn(c)
  PROVE  ServerInv' /\ TokensGrow /\ call[c].cookie \in Issued
<1>1. HoldsRight(c)
  BY DEF ServerInv
<1>2. PICK pc \in {"rotating", "scanned"} :
        /\ Revokes(call[c].cookie) /\ Becomes(c, pc) /\ UNCHANGED revokedJti
        /\ pc = "rotating" => At(c, "refresh", "found")
        /\ pc = "scanned" => At(c, "logout", "matched")
  BY DEF RevokeOld, RevokeOwn, Revokes
<1>3. PICK k : k = call[c].cookie
  OBVIOUS
<1>4. k \in Issued
  BY <1>1, <1>2, <1>3, LenFacts DEF HoldsRight, CallOK, At, ServerInv
<1>41. Revokes(k) /\ TokensOK
  BY <1>2, <1>3 DEF ServerInv
<1>5. /\ tokens' \in Seq(TokenRecords) /\ Len(tokens') = Len(tokens)
      /\ tokens'[k].revoked
      /\ \A n \in Issued :
           /\ tokens'[n].family = tokens[n].family /\ tokens'[n].parent = tokens[n].parent
           /\ tokens'[n].since = tokens[n].since
           /\ tokens'[n].age >= tokens[n].age
           /\ tokens[n].revoked => tokens'[n].revoked
  BY <1>4, <1>41, RevokedOne
<1>6. TokensGrow /\ ReplacedIsRevoked' /\ Known' = Known
  BY <1>2, <1>5, TokensMarked
<1>7. HoldsRight(c)'
  BY <1>1, <1>2, <1>3, <1>5, <1>6, BecomesEffect DEF HoldsRight, CallOK, At, Steps
<1>8. ServerInv'
  BY <1>2, <1>6, <1>7, BecomesEffect, ServerStepInv DEF Steps
<1> QED
  BY <1>3, <1>4, <1>6, <1>8

LEMMA RevokeFamilyEffect ==
  ASSUME ServerInv, NEW c \in Calls, RevokeFamily(c)
  PROVE  /\ tokens' \in Seq(TokenRecords) /\ Len(tokens') = Len(tokens)
         /\ \A n \in Issued :
              /\ tokens'[n].family = tokens[n].family /\ tokens'[n].parent = tokens[n].parent
              /\ tokens'[n].since = tokens[n].since
              /\ tokens'[n].age >= tokens[n].age
              /\ tokens[n].revoked => tokens'[n].revoked
              /\ tokens[n].family # Family(call[c].cookie) => tokens'[n] = tokens[n]
<1>1. \A n \in Issued : tokens[n] \in TokenRecords
  BY LenFacts DEF ServerInv
<1> DEFINE row(n) == IF tokens[n].family = Family(call[c].cookie)
                     THEN [tokens[n] EXCEPT !.revoked = TRUE] ELSE tokens[n]
<1>2. tokens' = [n \in Issued |-> row(n)]
  BY DEF RevokeFamily
<1>3. ASSUME NEW n \in Issued
      PROVE  /\ row(n) \in TokenRecords
             /\ row(n).family = tokens[n].family /\ row(n).parent = tokens[n].parent
             /\ row(n).age = tokens[n].age /\ row(n).since = tokens[n].since
             /\ tokens[n].revoked => row(n).revoked
             /\ tokens[n].family # Family(call[c].cookie) => row(n) = tokens[n]
  BY <1>1 DEF TokenRecords
<1> HIDE DEF row
<1>4. Issued = 1 .. Len(tokens) /\ Len(tokens) \in Nat
  BY LenFacts DEF ServerInv
<1>5. tokens' \in Seq(TokenRecords) /\ Len(tokens') = Len(tokens)
  BY <1>2, <1>3, <1>4
<1>6. \A n \in Issued : tokens'[n] = row(n)
  BY <1>2
<1>7. \A n \in Issued : tokens[n].age \in Nat
  BY <1>1 DEF TokenRecords
<1> QED
  BY <1>3, <1>5, <1>6, <1>7

LEMMA RevokeFamilyInv ==
  ASSUME ServerInv, NEW c \in Calls, RevokeFamily(c)
  PROVE  ServerInv' /\ TokensGrow
<1>1. UNCHANGED revokedJti /\ Answers(c, "unauthorized")
  BY DEF RevokeFamily
<1>2. TokensGrow /\ ReplacedIsRevoked'
  BY <1>1, RevokeFamilyEffect, TokensMarked
<1>3. TokensOK'
  BY <1>2 DEF TokensGrow
<1> QED
  BY <1>1, <1>2, <1>3, AnswersEffect, ServerStepInv DEF Answered

LEMMA ExpireEffect ==
  ASSUME ServerInv, NEW m \in Issued, Expire(m)
  PROVE  /\ UNCHANGED <<revokedJti, call>>
         /\ tokens' \in Seq(TokenRecords) /\ Len(tokens') = Len(tokens)
         /\ \A n \in Issued :
              /\ tokens'[n].family = tokens[n].family /\ tokens'[n].parent = tokens[n].parent
              /\ tokens'[n].since = tokens[n].since
              /\ tokens'[n].age >= tokens[n].age
              /\ tokens'[n].revoked = tokens[n].revoked
<1>1. \A n \in Issued : tokens[n] \in TokenRecords
  BY LenFacts DEF ServerInv
<1>2. PICK row : row = [tokens[m] EXCEPT !.age = @ + 1]
  OBVIOUS
<1>3. /\ row \in TokenRecords /\ row.revoked = tokens[m].revoked
      /\ row.family = tokens[m].family
      /\ row.parent = tokens[m].parent /\ row.age >= tokens[m].age /\ row.since = tokens[m].since
  BY <1>1, <1>2 DEF TokenRecords
<1>4. tokens' = [tokens EXCEPT ![m] = row] /\ UNCHANGED <<revokedJti, call>>
  BY <1>2 DEF Expire
<1>5. tokens' \in Seq(TokenRecords) /\ Len(tokens') = Len(tokens)
  BY <1>3, <1>4 DEF TokensOK, ServerInv, Issued
<1>6. \A n \in Issued : tokens'[n] = IF n = m THEN row ELSE tokens[n]
  BY <1>4 DEF TokensOK, ServerInv, Issued
<1>7. \A n \in Issued : tokens[n].age \in Nat
  BY <1>1 DEF TokenRecords
<1> QED
  BY <1>3, <1>4, <1>5, <1>6, <1>7

LEMMA ExpireInv ==
  ASSUME ServerInv, NEW m \in Issued, Expire(m)
  PROVE  ServerInv' /\ TokensGrow
<1>1. TokensGrow /\ ReplacedIsRevoked' /\ UNCHANGED call
  BY ExpireEffect, TokensMarked
<1>2. DOMAIN call' = Calls /\ call' = [c \in Calls |-> call'[c]]
  BY <1>1 DEF ServerInv
<1> QED
  BY <1>1, <1>2, ServerStepInv

(* The pairs issued by a login or a rotation. *)
LEMMA IssueEffect ==
  ASSUME ServerInv, NEW c \in Calls, NEW family \in 1 .. Len(tokens) + 1,
         NEW parent \in Known, IssueTokens(c, family, parent)
  PROVE  LET n == Len(tokens) + 1 IN
         /\ TokensOK' /\ UNCHANGED revokedJti
         /\ Len(tokens') = n /\ n \in Issued' /\ n \in Known' /\ Known \subseteq Known'
         /\ Issued' = Issued \cup {n} /\ n \notin Known /\ n \in Nat
         /\ tokens'[n].family = family /\ tokens'[n].parent = parent
         /\ tokens'[n].since = call[c].since
         /\ ~tokens'[n].revoked
         /\ \A m \in Issued : tokens'[m] = tokens[m]
         /\ \A m \in Known : Family(m)' = Family(m)
         /\ call'[c].kind = call[c].kind /\ call'[c].pc = "ok" /\ call'[c].jti = call[c].jti
         /\ call'[c].cookie = call[c].cookie /\ call'[c].issued = n
         /\ call'[c].since = call[c].since
         /\ call'[c] \in CallRecords
         /\ \A d \in Calls : d # c => call'[d] = call[d]
         /\ DOMAIN call' = Calls /\ call' = [d \in Calls |-> call'[d]]
<1> DEFINE n == Len(tokens) + 1
<1>0. call[c].since \in Nat
  BY DEF ServerInv, CallRecords
<1>1. PICK row : row = Pair(family, parent, call[c].since)
  OBVIOUS
<1>2. Len(tokens) \in Nat /\ tokens \in Seq(TokenRecords) /\ Issued = 1 .. Len(tokens)
  BY LenFacts DEF ServerInv, TokensOK
<1>3. /\ row \in TokenRecords /\ row.family = family /\ row.parent = parent /\ ~row.revoked
      /\ row.since = call[c].since
  BY <1>0, <1>1, <1>2 DEF Pair, TokenRecords, Known
<1>4. tokens' = Append(tokens, row)
  BY <1>1 DEF IssueTokens
<1>5. /\ tokens' \in Seq(TokenRecords) /\ Len(tokens') = n /\ tokens'[n] = row
      /\ \A m \in Issued : tokens'[m] = tokens[m]
  BY <1>2, <1>3, <1>4
<1>6. Issued' = Issued \cup {n} /\ Known' = Known \cup {n} /\ n \notin Known /\ n \in Nat
  BY <1>2, <1>5 DEF Issued, Known
<1>7. TokensOK'
  BY <1>2, <1>3, <1>5, <1>6 DEF TokensOK, ServerInv, Known
<1>8. \A m \in Known : Family(m)' = Family(m)
  BY <1>5, LenFacts DEF Family, ServerInv
<1>9. call[c] \in CallRecords
  BY DEF ServerInv
<1>10. PICK g : g = [call[c] EXCEPT !.pc = "ok"]
  OBVIOUS
<1>101. /\ g.kind = call[c].kind /\ g.pc = "ok" /\ g.jti = call[c].jti
        /\ g.cookie = call[c].cookie /\ g.since = call[c].since /\ g \in CallRecords
  BY <1>9, <1>10 DEF CallRecords, Steps
<1>102. PICK k : k = [g EXCEPT !.issued = n]
  OBVIOUS
<1>11. /\ k.kind = call[c].kind /\ k.pc = "ok" /\ k.jti = call[c].jti
       /\ k.cookie = call[c].cookie /\ k.issued = n /\ k.since = call[c].since
       /\ k \in CallRecords
  BY <1>2, <1>101, <1>102 DEF CallRecords
<1>12. call' = [call EXCEPT ![c] = k]
  BY <1>10, <1>102 DEF IssueTokens, ServerInv
<1>13. call'[c] = k /\ (\A d \in Calls : d # c => call'[d] = call[d])
       /\ DOMAIN call' = Calls /\ call' = [d \in Calls |-> call'[d]]
  BY <1>12 DEF ServerInv
<1>14. UNCHANGED revokedJti
  BY DEF IssueTokens
<1> QED
  BY <1>3, <1>5, <1>6, <1>7, <1>8, <1>11, <1>13, <1>14

LEMMA IssueInv ==
  ASSUME ServerInv, NEW c \in Calls, NEW family \in 1 .. Len(tokens) + 1,
         NEW parent \in Known, IssueTokens(c, family, parent),
         IF parent = 0 THEN family = Len(tokens) + 1
         ELSE tokens[parent].revoked /\ family = tokens[parent].family,
         HoldsRight(c)'
  PROVE  ServerInv' /\ TokensGrow
<1> DEFINE n == Len(tokens) + 1
<1>1. /\ TokensOK' /\ UNCHANGED revokedJti /\ Len(tokens') = n
      /\ Issued' = Issued \cup {n}
      /\ tokens'[n].family = family /\ tokens'[n].parent = parent
      /\ \A m \in Issued : tokens'[m] = tokens[m]
  BY IssueEffect
<1>2. Len(tokens) \in Nat /\ \A m \in Issued : tokens[m].age \in Nat
  <2>1. Len(tokens) \in Nat /\ \A m \in Issued : tokens[m] \in TokenRecords
    BY LenFacts DEF ServerInv
  <2> QED
    BY <2>1 DEF TokenRecords
<1>3. TokensGrow
  BY <1>1, <1>2 DEF TokensGrow, ServerInv
<1>4. ReplacedIsRevoked'
  <2> SUFFICES ASSUME NEW m \in Issued'
               PROVE  IF tokens'[m].parent = 0 THEN tokens'[m].family = m
                      ELSE /\ tokens'[tokens'[m].parent].revoked
                           /\ tokens'[m].family = tokens'[tokens'[m].parent].family
    BY DEF ReplacedIsRevoked
  <2>1. CASE m = n
    <3>1. parent # 0 => parent \in Issued
      BY LenFacts DEF ServerInv
    <3> QED
      BY <1>1, <2>1, <3>1
  <2>2. CASE m # n
    <3>1. m \in Issued /\ tokens'[m] = tokens[m]
      BY <1>1, <2>2
    <3>2. PICK old : old = tokens[m].parent
      OBVIOUS
    <3>3. old # 0 => old \in Issued
      BY <1>2, <3>1, <3>2 DEF ServerInv, TokensOK, Issued
    <3>4. IF old = 0 THEN tokens[m].family = m
          ELSE tokens[old].revoked /\ tokens[m].family = tokens[old].family
      BY <3>1, <3>2 DEF ServerInv, ReplacedIsRevoked
    <3>5. old # 0 => tokens'[old] = tokens[old]
      BY <1>1, <3>3
    <3> QED
      BY <3>1, <3>2, <3>4, <3>5
  <2> QED
    BY <2>1, <2>2
<1>5. /\ \A d \in Calls : d # c => call'[d] = call[d]
      /\ DOMAIN call' = Calls /\ call' = [d \in Calls |-> call'[d]]
  BY IssueEffect
<1> QED
  BY <1>3, <1>4, <1>5, ServerStepInv

LEMMA LoginInv ==
  ASSUME ServerInv, NEW c \in Calls, Login(c)
  PROVE  ServerInv' /\ TokensGrow
<1> DEFINE n == Len(tokens) + 1
<1>1. /\ IssueTokens(c, n, 0) /\ At(c, "login", "sent") /\ HoldsRight(c)
      /\ Len(tokens) \in Nat /\ 0 \in Known
  BY LenFacts DEF Login, ServerInv
<1>2. n \in 1 .. Len(tokens) + 1
  BY <1>1
<1>3. /\ Known \subseteq Known' /\ n \in Known' /\ tokens'[n].family = n
      /\ call'[c].kind = call[c].kind /\ call'[c].pc = "ok" /\ call'[c].jti = call[c].jti
      /\ call'[c].cookie = call[c].cookie /\ call'[c].issued = n
      /\ call'[c].since = call[c].since /\ call'[c] \in CallRecords
  BY <1>1, <1>2, IssueEffect
<1>4. HoldsRight(c)'
  BY <1>1, <1>3 DEF HoldsRight, CallOK, At, Family
<1> QED
  BY <1>1, <1>2, <1>4, IssueInv

LEMMA IssueNextInv ==
  ASSUME ServerInv, NEW c \in Calls, IssueNext(c)
  PROVE  /\ ServerInv' /\ TokensGrow /\ call[c].cookie \in Issued
         /\ Family(call[c].cookie) \in 1 .. Len(tokens) + 1
<1> DEFINE n == Len(tokens) + 1
           old == call[c].cookie
<1>1. /\ IssueTokens(c, Family(old), old) /\ At(c, "refresh", "rotating") /\ HoldsRight(c)
      /\ Len(tokens) \in Nat
  BY LenFacts DEF IssueNext, ServerInv
<1>2. old # 0 /\ old \in Known /\ old \in Issued /\ tokens[old].revoked
  BY <1>1, LenFacts DEF HoldsRight, CallOK, At, ServerInv
<1>3. Family(old) = tokens[old].family /\ Family(old) \in 1 .. n
  BY <1>1, <1>2 DEF Family, ServerInv, TokensOK, Issued
<1>4. /\ Known \subseteq Known' /\ n \in Known' /\ tokens'[n].family = Family(old)
      /\ call'[c].kind = call[c].kind /\ call'[c].pc = "ok" /\ call'[c].jti = call[c].jti
      /\ call'[c].cookie = old /\ call'[c].issued = n
      /\ call'[c].since = call[c].since /\ call'[c] \in CallRecords
  BY <1>1, <1>2, <1>3, IssueEffect
<1>5. n # 0
  BY <1>1
<1>6. HoldsRight(c)'
  <2>1. PICK b, m : b = old /\ m = n
    OBVIOUS
  <2>2. Family(m)' = Family(b) /\ Family(b)' = Family(b) /\ m # 0
    BY <1>2, <1>4, <1>5, <2>1, IssueEffect, <1>1, <1>3 DEF Family
  <2> QED
    BY <1>1, <1>2, <1>4, <2>1, <2>2 DEF HoldsRight, CallOK, At
<1> QED
  BY <1>1, <1>2, <1>3, <1>6, IssueInv

(* What the pages do to calls: they send them, and take their answers. *)
LEMMA IdleRight ==
  ASSUME ServerInv, NEW c
  PROVE  CallOK(c, Idle)
<1>1. 0 \in Known
  BY LenFacts DEF ServerInv
<1>2. /\ Idle.kind = "none" /\ Idle.pc = "idle" /\ Idle.jti = 0 /\ Idle.cookie = 0
      /\ Idle.issued = 0 /\ Idle.since = 0 /\ Idle \in CallRecords
  BY DEF Idle, CallRecords, Kinds, Steps
<1> QED
  BY <1>1, <1>2 DEF CallOK

LEMMA SentFields ==
  ASSUME ServerInv, NEW kind \in Kinds, NEW jti \in Nat, NEW jar \in Nat
  PROVE  LET k == Sent(kind, jti, jar) IN
         /\ k \in CallRecords /\ k.kind = kind /\ k.pc = "sent" /\ k.issued = 0
         /\ k.since \in Known
         /\ k.jti \in {0, jti} /\ k.cookie \in {0, jar}
         /\ kind \in {"refresh", "logout"} => k.cookie = jar
         /\ kind \in {"data", "login"} => k.cookie = 0
<1> DEFINE j == IF kind \in {"data", "logout"} THEN jti ELSE 0
           b == IF kind \in {"refresh", "logout"} THEN jar ELSE 0
           s == IF kind = "refresh" THEN Len(tokens) ELSE 0
<1>0. Len(tokens) \in Nat
  BY LenFacts DEF ServerInv
<1>1. Sent(kind, jti, jar) =
        [Idle EXCEPT !.kind = kind, !.pc = "sent", !.jti = j, !.cookie = b, !.since = s]
  BY DEF Sent
<1>2. /\ j \in {0, jti} /\ b \in {0, jar} /\ j \in Nat /\ b \in Nat
      /\ s \in Nat /\ s \in Known
      /\ kind \in {"refresh", "logout"} => b = jar
      /\ kind \in {"data", "login"} => b = 0
  BY <1>0 DEF Known
<1> HIDE DEF j, b, s
<1>3. PICK g : g = [Idle EXCEPT !.kind = kind, !.pc = "sent"]
  OBVIOUS
<1>4. g \in CallRecords /\ g.kind = kind /\ g.pc = "sent" /\ g.issued = 0
  BY <1>3 DEF Idle, CallRecords, Steps
<1>5. PICK k : k = [g EXCEPT !.jti = j, !.cookie = b, !.since = s]
  OBVIOUS
<1>6. /\ k \in CallRecords /\ k.kind = kind /\ k.pc = "sent" /\ k.issued = 0
      /\ k.jti = j /\ k.cookie = b /\ k.since = s
  BY <1>2, <1>4, <1>5 DEF CallRecords
<1>7. Sent(kind, jti, jar) = k
  BY <1>1, <1>3, <1>5
<1> QED
  BY <1>2, <1>6, <1>7

LEMMA SentRight ==
  ASSUME ServerInv, NEW c, NEW kind \in Kinds \ {"none"}, NEW jti \in Known, NEW jar \in Known,
         IF kind = "refresh" THEN c \in Refreshes ELSE c \in Requests
  PROVE  CallOK(c, Sent(kind, jti, jar))
<1>1. 0 \in Known /\ Known \subseteq Nat
  BY LenFacts DEF ServerInv, Known
<1>2. PICK k : k = Sent(kind, jti, jar)
  OBVIOUS
<1>3. /\ k \in CallRecords /\ k.kind = kind /\ k.pc = "sent" /\ k.issued = 0
      /\ k.jti \in {0, jti} /\ k.cookie \in {0, jar} /\ k.since \in Known
  BY <1>1, <1>2, SentFields
<1>4. CallOK(c, k)
  BY <1>1, <1>3 DEF CallOK, Kinds
<1> QED
  BY <1>2, <1>4

(* A call that is sent, or whose answer is taken, is right. *)
Exchanged(c) ==
  \/ call'[c] = call[c]
  \/ call'[c] = Idle
  \/ \E kind \in Kinds \ {"none"}, jti \in Known, jar \in Known :
       /\ IF kind = "refresh" THEN c \in Refreshes ELSE c \in Requests
       /\ call'[c] = Sent(kind, jti, jar)

LEMMA ExchangeInv ==
  ASSUME ServerInv, UNCHANGED <<tokens, revokedJti>>,
         DOMAIN call' = Calls, call' = [c \in Calls |-> call'[c]],
         \A c \in Calls : Exchanged(c)
  PROVE  ServerInv'
<1>1. TokensGrow /\ ReplacedIsRevoked'
  BY TokensStay DEF ServerInv
<1>2. ASSUME NEW c \in Calls PROVE call'[c] = call[c] \/ HoldsRight(c)'
  <2>1. PICK k : k = call'[c]
    OBVIOUS
  <2>2. CASE call'[c] # call[c]
    <3>1. CallOK(c, k)
      <4>1. CASE k = Idle
        BY <4>1, IdleRight
      <4>2. CASE k # Idle
        <5>1. PICK kind \in Kinds \ {"none"}, jti \in Known, jar \in Known :
                /\ IF kind = "refresh" THEN c \in Refreshes ELSE c \in Requests
                /\ k = Sent(kind, jti, jar)
          BY <2>1, <2>2, <4>2 DEF Exchanged
        <5>2. CallOK(c, Sent(kind, jti, jar))
          BY <5>1, SentRight
        <5> QED
          BY <5>1, <5>2
      <4> QED
        BY <4>1, <4>2
    <3>2. CallOK(c, k)'
      BY <1>1, <3>1, CallKept DEF ServerInv
    <3> QED
      BY <2>1, <3>2 DEF HoldsRight
  <2> QED
    BY <2>2
<1> QED
  BY <1>1, <1>2, ServerStepInv

LEMMA ServerStepsInv ==
  ASSUME ServerInv, NEW c \in Calls, ServerStep(c) \/ Fail(c) \/ RefuseUnchecked(c)
  PROVE  ServerInv' /\ TokensGrow
<1>1. CASE Refuse(c) \/ BadCredentials(c) \/ ExpiredMeanwhile(c) \/ Fail(c) \/ RefuseUnchecked(c)
  BY <1>1, AnswersInv
  DEF Refuse, BadCredentials, ExpiredMeanwhile, Fail, RefuseUnchecked, Answered
<1>2. CASE \/ Admit(c) \/ RevokeAccessToken(c) \/ Login(c) \/ FindToken(c) \/ RevokeFamily(c)
           \/ RevokeOld(c) \/ IssueNext(c)
           \/ ScanForLogout(c) \/ RevokeOwn(c) \/ FinishLogout(c)
  BY <1>2, GatewayInv, LoginInv, FindTokenInv, RevokeFamilyInv, RevokeOneInv, IssueNextInv, LogoutInv
<1> QED
  BY <1>1, <1>2 DEF ServerStep

-----------------------------------------------------------------------------
(* The pages. *)

PageTypes ==
  /\ page \in [Calls -> PageRecords]
  /\ store \in [Tabs -> Known] /\ saved \in Known /\ cookie \in Known
  /\ isRefreshing \in [Tabs -> BOOLEAN]
  /\ leaving \subseteq Tabs /\ disturbed \subseteq Nat

(* A page's request waits for a call of its kind, or for a refresh. *)
RequestOK(r) ==
  page[r] # NoPage =>
    /\ page[r].tab \in Tabs /\ page[r].kind \in {"data", "login", "logout"}
    /\ page[r].st \in {"waiting", "queued", "refreshing"}
    /\ page[r].st # "waiting" => call[r] = Idle
    /\ page[r].st = "waiting" =>
         \/ call[r].kind = page[r].kind
         \/ /\ call[r].kind = "none"
            /\ call[r].pc = "ok" => page[r].kind = "data"

(* The refresh of a page is that of the request which started it, and the  *)
(* only one of its tab; the family of one nobody waits for is disturbed.   *)
RefreshOK(f) ==
  /\ page[f] # NoPage =>
       /\ page[f].tab \in Tabs /\ isRefreshing[page[f].tab]
       /\ page[f].kind = "refresh" /\ page[f].st = "waiting"
       /\ page[f].of \in Requests
       /\ page[page[f].of].st = "refreshing" /\ page[page[f].of].tab = page[f].tab
       /\ call[f].kind = "refresh" \/ (call[f].kind = "none" /\ call[f].pc # "ok")
       /\ \A g \in Refreshes : page[g] # NoPage /\ page[g].tab = page[f].tab => g = f
  /\ page[f] = NoPage /\ call[f].kind = "refresh" /\ call[f].cookie # 0 =>
       Family(call[f].cookie) \in disturbed

PageInv ==
  /\ PageTypes
  /\ \A r \in Requests : RequestOK(r)
  /\ \A f \in Refreshes : RefreshOK(f)

LEMMA CallFacts ==
  /\ Requests \subseteq Calls /\ Refreshes \subseteq Calls
  /\ \A c \in Calls : c \in Requests \/ c \in Refreshes
  /\ \A r \in Requests : r \notin Refreshes
  /\ NoTab \notin Tabs /\ NoRequest \notin Requests
BY CallsAssumption, NoTabAssumption, NoRequestAssumption
DEF CallsAssumption, NoTabAssumption, NoRequestAssumption

LEMMA NoPageFields ==
  /\ NoPage \in PageRecords /\ NoPage.tab = NoTab /\ NoPage.st = "none" /\ NoPage.kind = "none"
BY DEF NoPage, PageRecords, Kinds

LEMMA IdleFields ==
  /\ Idle.kind = "none" /\ Idle.pc = "idle" /\ Idle.jti = 0 /\ Idle.cookie = 0 /\ Idle.issued = 0
  /\ Idle.since = 0
BY DEF Idle

(* What the servers do of a call whose answer is to come. *)
Moves(c) ==
  /\ call[c].kind # "none"
  /\ \/ call'[c].kind = call[c].kind /\ call'[c].cookie = call[c].cookie
     \/ /\ call'[c].kind = "none"
        /\ call'[c].pc = "ok" => call[c].kind = "data"

LEMMA ServerMovesPages ==
  ASSUME ServerInv, PageInv, TokensGrow,
         UNCHANGED <<page, store, saved, cookie, isRefreshing, leaving>>,
         disturbed \subseteq disturbed', disturbed' \subseteq Nat,
         \A c \in Calls : call'[c] = call[c] \/ Moves(c)
  PROVE  PageInv'
<1>1. Known \subseteq Known' /\ \A n \in Known : Family(n)' = Family(n)
  <2>1. Len(tokens) \in Nat /\ Len(tokens') \in Nat
    BY DEF ServerInv, TokensOK, TokensGrow
  <2>2. \A n \in Known : n # 0 => n \in Issued
    BY LenFacts DEF ServerInv
  <2> QED
    BY <2>1, <2>2 DEF TokensGrow, Known, Family
<1>2. PageTypes'
  BY <1>1 DEF PageInv, PageTypes
<1>3. ASSUME NEW r \in Requests PROVE RequestOK(r)'
  <2>1. RequestOK(r) /\ r \in Calls
    BY CallFacts DEF PageInv
  <2> QED
    BY <2>1, IdleFields DEF RequestOK, Moves
<1>4. ASSUME NEW f \in Refreshes PROVE RefreshOK(f)'
  <2>1. RefreshOK(f) /\ f \in Calls
    BY CallFacts DEF PageInv
  <2>2. call[f].cookie \in Known
    BY <2>1 DEF ServerInv, HoldsRight, CallOK
  <2>3. CASE call'[f] = call[f]
    BY <1>1, <2>1, <2>2, <2>3 DEF RefreshOK
  <2>4. CASE Moves(f)
    <3>1. page[f] # NoPage => call[f].kind = "refresh"
      BY <2>1, <2>4 DEF RefreshOK, Moves
    <3> QED
      BY <1>1, <2>1, <2>2, <2>4, <3>1 DEF RefreshOK, Moves
  <2> QED
    BY <2>1, <2>3, <2>4
<1> QED
  BY <1>2, <1>3, <1>4 DEF PageInv

LEMMA ServerStepsMove ==
  ASSUME ServerInv, NEW c \in Calls, ServerStep(c) \/ Fail(c) \/ RefuseUnchecked(c)
  PROVE  Moves(c) /\ \A d \in Calls : d # c => call'[d] = call[d]
<1>0. call[c].kind = "none" => call[c].pc \in {"idle"} \cup Answered
  BY DEF ServerInv, HoldsRight, CallOK, Answered
<1>1. ASSUME NEW pc \in Answered, Answers(c, pc), call[c].kind # "none",
             pc = "ok" => call[c].kind = "data"
      PROVE  Moves(c) /\ \A d \in Calls : d # c => call'[d] = call[d]
  <2>1. /\ call'[c] = [Idle EXCEPT !.pc = pc]
        /\ \A d \in Calls : d # c => call'[d] = call[d]
    BY <1>1 DEF ServerInv, Answers
  <2>2. call'[c].kind = "none" /\ call'[c].pc = pc
    BY <2>1 DEF Idle
  <2> QED
    BY <1>1, <2>1, <2>2 DEF Moves
<1>2. ASSUME NEW pc \in Steps, Becomes(c, pc), call[c].kind # "none"
      PROVE  Moves(c) /\ \A d \in Calls : d # c => call'[d] = call[d]
  BY <1>2, BecomesEffect DEF Moves
<1>3. CASE Refuse(c) \/ BadCredentials(c) \/ ExpiredMeanwhile(c) \/ Fail(c) \/ RefuseUnchecked(c)
           \/ RevokeFamily(c)
  <2>1. PICK pc \in {"unauthorized", "failed"} : Answers(c, pc)
    BY <1>3 DEF Refuse, BadCredentials, ExpiredMeanwhile, Fail, RefuseUnchecked, RevokeFamily
  <2>2. call[c].kind # "none"
    BY <1>0, <1>3
    DEF Refuse, BadCredentials, ExpiredMeanwhile, Fail, RefuseUnchecked, RevokeFamily, At, Protected
  <2> QED
    BY <1>1, <2>1, <2>2 DEF Answered
<1>4. CASE Admit(c)
  BY <1>1, <1>2, <1>4 DEF Admit, Protected, Answered, Steps
<1>5. CASE FindToken(c)
  BY <1>1, <1>2, <1>5 DEF FindToken, At, Answered, Steps
<1>6. CASE RevokeAccessToken(c) \/ RevokeOld(c) \/ ScanForLogout(c) \/ RevokeOwn(c) \/ FinishLogout(c)
  <2>1. PICK pc \in Steps : Becomes(c, pc)
    BY <1>6 DEF RevokeAccessToken, RevokeOld, ScanForLogout, RevokeOwn, FinishLogout, Steps
  <2>2. call[c].kind # "none"
    BY <1>6 DEF RevokeAccessToken, RevokeOld, ScanForLogout, RevokeOwn, FinishLogout, At
  <2> QED
    BY <1>2, <2>1, <2>2
<1>7. CASE Login(c)
  <2>1. Len(tokens) + 1 \in 1 .. Len(tokens) + 1 /\ 0 \in Known
    BY LenFacts DEF ServerInv
  <2> QED
    BY <1>7, <2>1, IssueEffect DEF Login, Moves, At
<1>8. CASE IssueNext(c)
  <2>1. call[c].cookie \in Issued /\ Family(call[c].cookie) \in 1 .. Len(tokens) + 1
    BY <1>8, IssueNextInv
  <2>2. call[c].cookie \in Known
    BY <2>1, LenFacts DEF ServerInv
  <2> QED
    BY <1>8, <2>1, <2>2, IssueEffect DEF IssueNext, Moves, At
<1> QED
  BY <1>3, <1>4, <1>5, <1>6, <1>7, <1>8 DEF ServerStep

(* One request of a page moves, and no refresh is its. *)
LEMMA OneRequestMoves ==
  ASSUME ServerInv, PageInv, PageTypes', UNCHANGED <<tokens, isRefreshing>>,
         disturbed \subseteq disturbed',
         NEW r \in Requests, page[r].st # "refreshing",
         \A c \in Calls : c # r => page'[c] = page[c] /\ call'[c] = call[c],
         RequestOK(r)'
  PROVE  PageInv'
<1>1. \A n : Family(n)' = Family(n)
  BY DEF Family
<1>2. ASSUME NEW q \in Requests PROVE RequestOK(q)'
  <2>1. RequestOK(q) /\ q \in Calls
    BY CallFacts DEF PageInv
  <2> QED
    BY <2>1 DEF RequestOK
<1>3. ASSUME NEW f \in Refreshes PROVE RefreshOK(f)'
  <2>1. RefreshOK(f) /\ f \in Calls /\ f # r /\ \A g \in Refreshes : g \in Calls /\ g # r
    BY CallFacts DEF PageInv
  <2>2. page'[f] = page[f] /\ call'[f] = call[f] /\ \A g \in Refreshes : page'[g] = page[g]
    BY <2>1
  <2>3. page[f] # NoPage => page[f].of \in Calls /\ page[f].of # r
    BY <2>1, CallFacts DEF RefreshOK
  <2>4. page[f] # NoPage => page'[page[f].of] = page[page[f].of]
    BY <2>3
  <2> QED
    BY <1>1, <2>1, <2>2, <2>4 DEF RefreshOK
<1> QED
  BY <1>2, <1>3 DEF PageInv

LEMMA SendFacts ==
  ASSUME ServerInv, PageInv, NEW t \in Tabs, NEW r \in Requests,
         NEW kind \in {"data", "login", "logout"}, Send(t, r, kind)
  PROVE  /\ UNCHANGED <<tokens, revokedJti, cookie, isRefreshing>> /\ page[r] = NoPage
         /\ call'[r] = Sent(kind, store[t], cookie)
         /\ page'[r].tab = t /\ page'[r].st = "waiting" /\ page'[r].kind = kind
         /\ \A c \in Calls : c # r => page'[c] = page[c] /\ call'[c] = call[c]
         /\ DOMAIN call' = Calls /\ call' = [c \in Calls |-> call'[c]]
         /\ PageTypes'
         /\ disturbed' = disturbed \cup ((IF kind = "logout" THEN {Family(cookie)} ELSE {}) \ {0})
<1>1. r \in Calls /\ page \in [Calls -> PageRecords] /\ call \in [Calls -> CallRecords]
  BY CallFacts DEF ServerInv, PageInv, PageTypes
<1>2. PICK p : p = [NoPage EXCEPT !.tab = t, !.st = "waiting", !.kind = kind]
  OBVIOUS
<1>3. p.tab = t /\ p.st = "waiting" /\ p.kind = kind /\ p \in PageRecords
  BY <1>2 DEF NoPage, PageRecords, Kinds
<1>4. page' = [page EXCEPT ![r] = p]
  BY <1>2 DEF Send
<1>5. page' \in [Calls -> PageRecords] /\ page'[r] = p
      /\ \A c \in Calls : c # r => page'[c] = page[c]
  BY <1>1, <1>3, <1>4
<1>6. /\ call'[r] = Sent(kind, store[t], cookie)
      /\ \A c \in Calls : c # r => call'[c] = call[c]
      /\ DOMAIN call' = Calls /\ call' = [c \in Calls |-> call'[c]]
  BY <1>1 DEF Send
<1>7. disturbed' = disturbed \cup ((IF kind = "logout" THEN {Family(cookie)} ELSE {}) \ {0})
  BY DEF Send, Disturb
<1>8. Family(cookie) \in Nat
  <2>1. cookie \in Known /\ (cookie # 0 => cookie \in Issued)
    BY LenFacts DEF PageInv, PageTypes, ServerInv
  <2> QED
    BY <2>1 DEF Family, ServerInv, TokensOK, Issued
<1>9. PageTypes'
  BY <1>5, <1>7, <1>8 DEF PageInv, PageTypes, Send, Known
<1> QED
  BY <1>3, <1>5, <1>6, <1>7, <1>9 DEF Send, Free

LEMMA SendInv ==
  ASSUME ServerInv, PageInv, NEW t \in Tabs, NEW r \in Requests,
         NEW kind \in {"data", "login", "logout"}, Send(t, r, kind)
  PROVE  ServerInv' /\ PageInv'
<1>1. store[t] \in Known /\ cookie \in Known /\ Known \subseteq Nat /\ r \in Calls
  BY CallFacts DEF PageInv, PageTypes, Known
<1>2. call'[r].kind = kind
  BY <1>1, SendFacts, SentFields DEF Kinds
<1>3. RequestOK(r)'
  BY <1>2, SendFacts DEF RequestOK
<1>4. page[r].st # "refreshing"
  BY SendFacts, NoPageFields
<1>5. PageInv'
  BY <1>3, <1>4, SendFacts, OneRequestMoves
<1>6. Exchanged(r)
  <2>1. kind \in Kinds \ {"none"} /\ kind # "refresh"
    BY DEF Kinds
  <2> QED
    BY <1>1, <2>1, SendFacts DEF Exchanged
<1>7. \A c \in Calls : Exchanged(c)
  BY <1>6, SendFacts DEF Exchanged
<1> QED
  BY <1>5, <1>7, SendFacts, ExchangeInv

(* An answer is taken. *)
LEMMA TakenInv ==
  ASSUME ServerInv, NEW c \in Calls, call' = [call EXCEPT ![c] = Idle],
         UNCHANGED <<tokens, revokedJti>>
  PROVE  /\ ServerInv' /\ call'[c] = Idle
         /\ \A d \in Calls : d # c => call'[d] = call[d]
<1>1. /\ DOMAIN call' = Calls /\ call' = [d \in Calls |-> call'[d]] /\ call'[c] = Idle
      /\ \A d \in Calls : d # c => call'[d] = call[d]
  BY DEF ServerInv
<1>2. \A d \in Calls : Exchanged(d)
  BY <1>1 DEF Exchanged
<1> QED
  BY <1>1, <1>2, ExchangeInv

(* The parts of a page that its answers set. *)
LEMMA AcceptTypes ==
  ASSUME ServerInv, PageInv, NEW r \in Requests, Accept(r)
  PROVE  /\ store' \in [Tabs -> Known] /\ saved' \in Known
         /\ page[r].kind = "login" =>
              /\ call[r].kind = "login" /\ call[r].pc = "ok" /\ cookie' = call[r].issued
              /\ cookie' \in Known
         /\ page[r].kind # "login" => cookie' \in {cookie, 0} /\ cookie' \in Known
<1>1. page[r] # NoPage /\ RequestOK(r) /\ r \in Calls /\ Waiting(r) /\ call[r].pc = "ok"
  BY CallFacts, NoPageFields DEF Accept, Waiting, PageInv
<1>2. /\ 0 \in Known /\ call[r].issued \in Known /\ page[r].tab \in Tabs
      /\ store \in [Tabs -> Known] /\ saved \in Known /\ cookie \in Known
  BY <1>1, LenFacts DEF ServerInv, HoldsRight, CallOK, RequestOK, PageInv, PageTypes
<1>3. CASE page[r].kind = "data"
  BY <1>2, <1>3 DEF Accept, KeepStore
<1>4. CASE page[r].kind = "login"
  <2>1. cookie' = call[r].issued /\ SetStore(page[r].tab, call[r].issued)
    BY <1>4 DEF Accept
  <2>2. call[r].kind = "login"
    BY <1>1, <1>4 DEF RequestOK, Waiting
  <2> QED
    BY <1>1, <1>2, <1>4, <2>1, <2>2 DEF SetStore
<1>5. CASE page[r].kind = "logout"
  <2>1. cookie' = 0 /\ SetStore(page[r].tab, 0)
    BY <1>5 DEF Accept
  <2> QED
    BY <1>2, <1>5, <2>1 DEF SetStore
<1> QED
  BY <1>1, <1>3, <1>4, <1>5 DEF RequestOK

LEMMA AcceptInv ==
  ASSUME ServerInv, PageInv, NEW r \in Requests, Accept(r)
  PROVE  ServerInv' /\ PageInv'
<1>1. /\ r \in Calls /\ page' = [page EXCEPT ![r] = NoPage] /\ call' = [call EXCEPT ![r] = Idle]
      /\ UNCHANGED <<tokens, revokedJti, isRefreshing, leaving, disturbed>>
      /\ page[r].st = "waiting"
  BY CallFacts DEF Accept, Waiting
<1>2. ServerInv' /\ \A d \in Calls : d # r => call'[d] = call[d]
  BY <1>1, TakenInv
<1>3. /\ page' \in [Calls -> PageRecords] /\ page'[r] = NoPage
      /\ \A d \in Calls : d # r => page'[d] = page[d]
  BY <1>1, NoPageFields DEF PageInv, PageTypes
<1>4. cookie' \in Known
  BY AcceptTypes
<1>5. PageTypes'
  BY <1>1, <1>3, <1>4, AcceptTypes DEF PageInv, PageTypes, Known
<1>6. RequestOK(r)'
  BY <1>3 DEF RequestOK
<1> QED
  BY <1>1, <1>2, <1>3, <1>5, <1>6, OneRequestMoves

LEMMA EnqueueInv ==
  ASSUME ServerInv, PageInv, NEW r \in Requests, Enqueue(r)
  PROVE  ServerInv' /\ PageInv'
<1>1. /\ r \in Calls /\ call' = [call EXCEPT ![r] = Idle]
      /\ UNCHANGED <<tokens, revokedJti, store, saved, cookie, isRefreshing, leaving, disturbed>>
      /\ page[r].st = "waiting"
  BY CallFacts DEF Enqueue, Waiting
<1>2. ServerInv' /\ call'[r] = Idle /\ \A d \in Calls : d # r => call'[d] = call[d]
  BY <1>1, TakenInv
<1>3. PICK p : p = [page[r] EXCEPT !.st = "queued"]
  OBVIOUS
<1>4. p \in PageRecords /\ p.st = "queued" /\ p.tab = page[r].tab /\ p.kind = page[r].kind
  BY <1>1, <1>3 DEF PageInv, PageTypes, PageRecords
<1>5. /\ page' \in [Calls -> PageRecords] /\ page'[r] = p
      /\ \A d \in Calls : d # r => page'[d] = page[d]
  BY <1>1, <1>3, <1>4 DEF PageInv, PageTypes, Enqueue
<1>6. PageTypes'
  BY <1>1, <1>5 DEF PageInv, PageTypes, Known
<1>7. RequestOK(r)'
  <2>1. RequestOK(r) /\ page[r] # NoPage
    BY <1>1, NoPageFields DEF PageInv
  <2> QED
    BY <1>2, <1>4, <1>5, <2>1 DEF RequestOK
<1> QED
  BY <1>1, <1>2, <1>5, <1>6, <1>7, OneRequestMoves

LEMMA FamilyIsNat ==
  ASSUME ServerInv, NEW n \in Known
  PROVE  Family(n) \in Nat
<1>1. n # 0 => n \in Issued
  BY LenFacts DEF ServerInv
<1> QED
  BY <1>1 DEF Family, ServerInv, TokensOK, Issued

(* A request is given up, whether its call is over or goes on. *)
LEMMA RejectRequestInv ==
  ASSUME ServerInv, PageInv, NEW r \in Requests, page[r].st = "waiting", RejectRequest(r),
         UNCHANGED tokens, disturbed \subseteq disturbed', disturbed' \subseteq Nat,
         \A c \in Calls : c # r => call'[c] = call[c]
  PROVE  PageInv'
<1>1. r \in Calls /\ RequestOK(r) /\ page[r] # NoPage
  BY CallFacts, NoPageFields DEF PageInv
<1>2. /\ page' \in [Calls -> PageRecords] /\ page'[r] = NoPage
      /\ \A d \in Calls : d # r => page'[d] = page[d]
      /\ UNCHANGED <<cookie, isRefreshing, leaving>>
  BY <1>1, NoPageFields DEF PageInv, PageTypes, RejectRequest
<1>3. Known' = Known /\ 0 \in Known
  BY LenFacts DEF Known, ServerInv
<1>4. store' \in [Tabs -> Known] /\ saved' \in Known
  <2>1. CASE page[r].kind = "logout"
    BY <1>1, <1>3, <2>1 DEF RejectRequest, SetStore, RequestOK, PageInv, PageTypes
  <2>2. CASE page[r].kind # "logout"
    BY <2>2 DEF RejectRequest, KeepStore, PageInv, PageTypes
  <2> QED
    BY <2>1, <2>2
<1>5. PageTypes'
  BY <1>2, <1>3, <1>4 DEF PageInv, PageTypes
<1>6. RequestOK(r)'
  BY <1>2 DEF RequestOK
<1> QED
  BY <1>1, <1>2, <1>5, <1>6, OneRequestMoves

(* What a refresh that ends takes with it. *)
LEMMA ReplayedFacts ==
  ASSUME PageInv, NEW f \in Refreshes, Waiting(f)
  PROVE  /\ page[f].tab \in Tabs /\ page[f].of \in Requests /\ isRefreshing[page[f].tab]
         /\ Replayed(f) \subseteq Requests
         /\ \A r \in Replayed(f) : /\ page[r].tab = page[f].tab
                                   /\ page[r].st \in {"queued", "refreshing"}
                                   /\ page[r] # NoPage
         /\ \A g \in Refreshes : g # f /\ page[g] # NoPage =>
              /\ page[g].tab # page[f].tab
              /\ page[g].of \in Requests \ Replayed(f)
<1>1. RefreshOK(f) /\ page[f] # NoPage
  BY NoPageFields DEF PageInv, Waiting
<1>2. /\ page[f].tab \in Tabs /\ page[f].of \in Requests /\ isRefreshing[page[f].tab]
      /\ page[page[f].of].tab = page[f].tab /\ page[page[f].of].st = "refreshing"
      /\ \A g \in Refreshes : page[g] # NoPage /\ page[g].tab = page[f].tab => g = f
  BY <1>1 DEF RefreshOK
<1>3. \A r \in Replayed(f) : /\ r \in Requests /\ page[r].tab = page[f].tab
                            /\ page[r].st \in {"queued", "refreshing"}
  BY <1>2 DEF Replayed, Queue
<1>4. ASSUME NEW g \in Refreshes, g # f, page[g] # NoPage
      PROVE  page[g].tab # page[f].tab /\ page[g].of \in Requests \ Replayed(f)
  <2>1. RefreshOK(g)
    BY DEF PageInv
  <2>2. page[g].tab # page[f].tab
    BY <1>2, <1>4
  <2> QED
    BY <1>3, <1>4, <2>1, <2>2 DEF RefreshOK
<1> QED
  BY <1>2, <1>3, <1>4, NoPageFields

(* A refresh ends, well or not, and the requests behind it move. *)
LEMMA RefreshEnds ==
  ASSUME ServerInv, PageInv, PageTypes', UNCHANGED tokens, disturbed \subseteq disturbed',
         NEW f \in Refreshes, Waiting(f),
         \A t \in Tabs : t # page[f].tab => isRefreshing'[t] = isRefreshing[t],
         page'[f] = NoPage,
         \A c \in Calls : c # f /\ c \notin Replayed(f) =>
            page'[c] = page[c] /\ call'[c] = call[c],
         \A r \in Replayed(f) : RequestOK(r)',
         call'[f].kind = "refresh" /\ call'[f].cookie # 0 =>
            Family(call'[f].cookie) \in disturbed'
  PROVE  PageInv'
<1>1. \A n : Family(n)' = Family(n)
  BY DEF Family
<1>2. ASSUME NEW r \in Requests PROVE RequestOK(r)'
  <2>1. RequestOK(r) /\ r \in Calls /\ r # f
    BY CallFacts DEF PageInv
  <2> QED
    BY <2>1 DEF RequestOK
<1>3. ASSUME NEW g \in Refreshes, g # f PROVE RefreshOK(g)'
  <2>1. RefreshOK(g) /\ g \in Calls /\ \A e \in Refreshes : e \in Calls /\ e \notin Requests
    BY CallFacts DEF PageInv
  <2>2. \A e \in Refreshes : e # f => page'[e] = page[e] /\ call'[e] = call[e]
    BY <2>1, ReplayedFacts
  <2>3. page[g] # NoPage => page'[page[g].of] = page[page[g].of]
    BY <1>3, ReplayedFacts, CallFacts
  <2>4. page[g] # NoPage => isRefreshing'[page[g].tab] = isRefreshing[page[g].tab]
    BY <1>3, <2>1, ReplayedFacts DEF RefreshOK, PageInv, PageTypes
  <2>5. \A e \in Refreshes : page'[e] # NoPage => e # f
    OBVIOUS
  <2> QED
    BY <1>1, <1>3, <2>1, <2>2, <2>3, <2>4, <2>5 DEF RefreshOK
<1>4. RefreshOK(f)'
  BY <1>1 DEF RefreshOK
<1> QED
  BY <1>2, <1>3, <1>4 DEF PageInv

LEMMA AbandonRefreshInv ==
  ASSUME ServerInv, PageInv, NEW f \in Refreshes, Waiting(f), AbandonRefresh(f),
         UNCHANGED tokens, disturbed \subseteq disturbed', disturbed' \subseteq Nat,
         \A c \in Calls : c # f => call'[c] = call[c],
         call'[f].kind = "refresh" /\ call'[f].cookie # 0 =>
            Family(call'[f].cookie) \in disturbed'
  PROVE  PageInv'
<1>1. /\ page[f].tab \in Tabs /\ Replayed(f) \subseteq Requests /\ f \in Calls
  BY ReplayedFacts, CallFacts
<1>2. /\ page' = [c \in Calls |-> IF c \in Replayed(f) \cup {f} THEN NoPage ELSE page[c]]
      /\ SetStore(page[f].tab, 0)
      /\ isRefreshing' = [isRefreshing EXCEPT ![page[f].tab] = FALSE]
      /\ leaving' = leaving \cup {page[f].tab}
      /\ UNCHANGED cookie
  BY DEF AbandonRefresh
<1>3. Known' = Known /\ 0 \in Known
  BY LenFacts DEF Known, ServerInv
<1>4. PageTypes'
  BY <1>1, <1>2, <1>3, NoPageFields DEF PageInv, PageTypes, SetStore
<1>5. page'[f] = NoPage /\ \A r \in Replayed(f) : page'[r] = NoPage
  BY <1>1, <1>2, CallFacts
<1>6. \A c \in Calls : c # f /\ c \notin Replayed(f) => page'[c] = page[c] /\ call'[c] = call[c]
  BY <1>2
<1>7. \A r \in Replayed(f) : RequestOK(r)'
  BY <1>5 DEF RequestOK
<1>8. \A t \in Tabs : t # page[f].tab => isRefreshing'[t] = isRefreshing[t]
  BY <1>2 DEF PageInv, PageTypes
<1> QED
  BY <1>4, <1>5, <1>6, <1>7, <1>8, RefreshEnds

LEMMA RejectInv ==
  ASSUME ServerInv, PageInv, NEW c \in Calls, Reject(c)
  PROVE  ServerInv' /\ PageInv'
<1>1. /\ call' = [call EXCEPT ![c] = Idle] /\ UNCHANGED <<tokens, revokedJti, disturbed>>
      /\ Waiting(c) /\ disturbed \subseteq Nat
  BY DEF Reject, PageInv, PageTypes
<1>2. ServerInv' /\ call'[c] = Idle /\ \A d \in Calls : d # c => call'[d] = call[d]
  BY <1>1, TakenInv
<1>3. CASE c \in Requests /\ RejectRequest(c)
  BY <1>1, <1>2, <1>3, RejectRequestInv DEF Waiting
<1>4. CASE c \in Refreshes /\ AbandonRefresh(c)
  BY <1>1, <1>2, <1>4, AbandonRefreshInv, IdleFields
<1> QED
  BY <1>2, <1>3, <1>4 DEF Reject

LEMMA CutInv ==
  ASSUME ServerInv, PageInv, NEW c \in Calls, Cut(c)
  PROVE  ServerInv' /\ PageInv'
<1>1. Waiting(c) /\ UNCHANGED <<tokens, revokedJti, call>>
  BY DEF Cut, serverVars
<1>2. /\ ServerInv' /\ DOMAIN call' = Calls /\ call' = [d \in Calls |-> call'[d]]
  <2>1. \A d \in Calls : Exchanged(d)
    BY <1>1 DEF Exchanged
  <2>2. DOMAIN call' = Calls /\ call' = [d \in Calls |-> call'[d]]
    BY <1>1 DEF ServerInv
  <2> QED
    BY <1>1, <2>1, <2>2, ExchangeInv
<1>3. call[c].cookie \in Known /\ Family(call[c].cookie) \in Nat
  <2>1. call[c].cookie \in Known
    BY DEF ServerInv, HoldsRight, CallOK
  <2> QED
    BY <2>1, FamilyIsNat
<1>4. /\ disturbed \subseteq disturbed' /\ disturbed' \subseteq Nat
      /\ page[c].kind = "refresh" /\ Family(call[c].cookie) # 0 =>
           Family(call[c].cookie) \in disturbed'
  BY <1>3 DEF Cut, Disturb, PageInv, PageTypes
<1>5. CASE c \in Requests /\ RejectRequest(c)
  BY <1>1, <1>2, <1>4, <1>5, RejectRequestInv DEF Waiting
<1>6. CASE c \in Refreshes /\ AbandonRefresh(c)
  <2>1. page[c].kind = "refresh"
    BY <1>1, <1>6, NoPageFields DEF PageInv, RefreshOK, Waiting
  <2>2. call[c].cookie # 0 => Family(call[c].cookie) # 0
    <3>1. PICK n : n = call[c].cookie
      OBVIOUS
    <3>2. n # 0 => n \in Issued
      BY <1>3, <3>1, LenFacts DEF ServerInv
    <3>3. n # 0 => tokens[n].family \in 1 .. n
      BY <3>2 DEF ServerInv, TokensOK
    <3>4. n # 0 => Family(n) # 0
      BY <3>2, <3>3 DEF Family, Issued
    <3> QED
      BY <3>1, <3>4
  <2>3. call[c].cookie # 0 => Family(call[c].cookie) \in disturbed'
    BY <1>4, <2>1, <2>2
  <2>4. call'[c].cookie # 0 => Family(call'[c].cookie) \in disturbed'
    BY <1>1, <2>3
  <2>5. \A d \in Calls : d # c => call'[d] = call[d]
    BY <1>1
  <2>6. PageInv'
    BY <1>1, <1>4, <1>6, <2>4, <2>5, AbandonRefreshInv
  <2> QED
    BY <1>2, <2>6
<1> QED
  BY <1>2, <1>5, <1>6 DEF Cut

(* What the success of a refresh makes of the calls and pages. *)
LEMMA FinishFacts ==
  ASSUME ServerInv, PageInv, NEW f \in Refreshes, FinishRefresh(f)
  PROVE  LET n == call[f].issued IN
         /\ Waiting(f) /\ f \in Calls /\ call[f].kind = "refresh" /\ call[f].pc = "ok"
         /\ n \in Known /\ n # 0 /\ cookie' = n
         /\ UNCHANGED <<tokens, revokedJti, leaving>>
         /\ page'[f] = NoPage /\ call'[f] = Idle
         /\ \A r \in Replayed(f) :
              /\ page'[r].st = "waiting" /\ page'[r].tab = page[r].tab
              /\ page'[r].kind = page[r].kind
              /\ page[r].kind \in {"data", "login", "logout"}
              /\ call'[r] = Sent(page[r].kind, n, n)
         /\ \A c \in Calls : c # f /\ c \notin Replayed(f) =>
              page'[c] = page[c] /\ call'[c] = call[c]
         /\ DOMAIN call' = Calls /\ call' = [c \in Calls |-> call'[c]]
         /\ disturbed' = disturbed \cup
              ((IF \E r \in Replayed(f) : page[r].kind = "logout" THEN {Family(n)} ELSE {}) \ {0})
<1> DEFINE n == call[f].issued
           again == Replayed(f)
<1>1. Waiting(f) /\ f \in Calls /\ call[f].pc = "ok" /\ f \notin Requests
  BY CallFacts DEF FinishRefresh
<1>2. call[f].kind = "refresh"
  <2>1. RefreshOK(f) /\ page[f] # NoPage
    BY <1>1, NoPageFields DEF PageInv, Waiting
  <2> QED
    BY <1>1, <2>1 DEF RefreshOK
<1>3. n \in Known /\ n # 0
  BY <1>1, <1>2 DEF ServerInv, HoldsRight, CallOK
<1>4. /\ page' = [c \in Calls |->
            IF c \in again THEN [page[c] EXCEPT !.st = "waiting"]
            ELSE IF c = f THEN NoPage ELSE page[c]]
      /\ call' = [c \in Calls |->
            IF c \in again THEN Sent(page[c].kind, n, n)
            ELSE IF c = f THEN Idle ELSE call[c]]
      /\ cookie' = n /\ UNCHANGED <<tokens, revokedJti, leaving>>
      /\ Disturb(IF \E r \in again : page[r].kind = "logout" THEN {Family(n)} ELSE {})
  BY DEF FinishRefresh
<1>5. again \subseteq Requests /\ f \notin again /\ \A r \in again : page[r] # NoPage
  BY <1>1, ReplayedFacts
<1> HIDE DEF again, n
<1>6. ASSUME NEW r \in again
      PROVE  /\ page'[r].st = "waiting" /\ page'[r].tab = page[r].tab
             /\ page'[r].kind = page[r].kind
             /\ page[r].kind \in {"data", "login", "logout"}
             /\ call'[r] = Sent(page[r].kind, n, n)
  <2>1. r \in Calls /\ RequestOK(r) /\ page[r] \in PageRecords
    BY <1>5, CallFacts DEF PageInv, PageTypes
  <2>2. page'[r] = [page[r] EXCEPT !.st = "waiting"] /\ call'[r] = Sent(page[r].kind, n, n)
    BY <1>4, <2>1
  <2>3. page'[r].st = "waiting" /\ page'[r].tab = page[r].tab /\ page'[r].kind = page[r].kind
    BY <2>1, <2>2 DEF PageRecords
  <2>4. page[r].kind \in {"data", "login", "logout"}
    BY <1>5, <2>1 DEF RequestOK
  <2> QED
    BY <2>2, <2>3, <2>4
<1>7. page'[f] = NoPage /\ call'[f] = Idle
  BY <1>1, <1>4, <1>5
<1>8. \A c \in Calls : c # f /\ c \notin again => page'[c] = page[c] /\ call'[c] = call[c]
  BY <1>4
<1>9. DOMAIN call' = Calls /\ call' = [c \in Calls |-> call'[c]]
  BY <1>4
<1>10. disturbed' = disturbed \cup
         ((IF \E r \in again : page[r].kind = "logout" THEN {Family(n)} ELSE {}) \ {0})
  BY <1>4 DEF Disturb
<1> QED
  BY <1>1, <1>2, <1>3, <1>4, <1>6, <1>7, <1>8, <1>9, <1>10 DEF again, n

LEMMA FinishRefreshInv ==
  ASSUME ServerInv, PageInv, NEW f \in Refreshes, FinishRefresh(f)
  PROVE  ServerInv' /\ PageInv'
<1>1. PICK n : n = call[f].issued
  OBVIOUS
<1>2. /\ n \in Known /\ Known \subseteq Nat /\ Known' = Known /\ Family(n) \in Nat
      /\ page[f].tab \in Tabs
  BY <1>1, FinishFacts, FamilyIsNat, ReplayedFacts DEF Known
<1>3. ASSUME NEW c \in Calls PROVE Exchanged(c)
  <2>1. CASE c \in Replayed(f)
    <3>1. /\ page[c].kind \in Kinds \ {"none"} /\ page[c].kind # "refresh"
          /\ call'[c] = Sent(page[c].kind, n, n) /\ c \in Requests
      BY <1>1, <2>1, FinishFacts, ReplayedFacts DEF Kinds
    <3> QED
      BY <1>2, <3>1 DEF Exchanged
  <2>2. CASE c \notin Replayed(f)
    BY <2>2, FinishFacts DEF Exchanged
  <2> QED
    BY <2>1, <2>2
<1>4. ServerInv'
  BY <1>3, FinishFacts, ExchangeInv
<1>5. /\ disturbed \subseteq disturbed' /\ disturbed' \subseteq Nat
  BY <1>1, <1>2, FinishFacts DEF PageInv, PageTypes
<1>6. page' \in [Calls -> PageRecords]
  <2>1. /\ page' = [c \in Calls |->
            IF c \in Replayed(f) THEN [page[c] EXCEPT !.st = "waiting"]
            ELSE IF c = f THEN NoPage ELSE page[c]]
    BY DEF FinishRefresh
  <2>2. \A c \in Calls : [page[c] EXCEPT !.st = "waiting"] \in PageRecords
    BY DEF PageInv, PageTypes, PageRecords
  <2>3. \A c \in Calls : page[c] \in PageRecords
    BY DEF PageInv, PageTypes
  <2> QED
    BY <2>1, <2>2, <2>3, NoPageFields
<1>7. /\ SetStore(page[f].tab, n) /\ isRefreshing' = [isRefreshing EXCEPT ![page[f].tab] = FALSE]
  BY <1>1 DEF FinishRefresh
<1>8. PageTypes'
  BY <1>1, <1>2, <1>5, <1>6, <1>7, FinishFacts DEF PageInv, PageTypes, SetStore
<1>9. \A t \in Tabs : t # page[f].tab => isRefreshing'[t] = isRefreshing[t]
  BY <1>7 DEF PageInv, PageTypes
<1>10. ASSUME NEW r \in Replayed(f) PROVE RequestOK(r)'
  <2>1. /\ page[r].kind \in Kinds /\ n \in Nat
        /\ call'[r] = Sent(page[r].kind, n, n)
    BY <1>1, <1>2, FinishFacts DEF Kinds
  <2>2. ASSUME NEW kind \in Kinds PROVE Sent(kind, n, n).kind = kind
    <3>1. n \in Nat
      BY <2>1
    <3> QED
      BY <3>1, SentFields
  <2>3. call'[r].kind = page[r].kind
    BY <2>1, <2>2
  <2> QED
    BY <2>3, FinishFacts, ReplayedFacts DEF RequestOK
<1>11. PageInv'
  BY <1>5, <1>8, <1>9, <1>10, FinishFacts, IdleFields, RefreshEnds
<1> QED
  BY <1>4, <1>11

LEMMA StartFacts ==
  ASSUME ServerInv, PageInv, NEW r, NEW f \in Refreshes, StartRefresh(r, f)
  PROVE  LET t == page[r].tab IN
         /\ r \in Requests /\ r \in Calls /\ f \in Calls /\ r # f /\ t \in Tabs
         /\ UNCHANGED <<tokens, revokedJti, store, saved, cookie, leaving>>
         /\ page[r] # NoPage /\ page[r].st = "waiting" /\ page[f] = NoPage /\ call[f] = Idle
         /\ ~isRefreshing[t] /\ isRefreshing'[t]
         /\ \A u \in Tabs : u # t => isRefreshing'[u] = isRefreshing[u]
         /\ isRefreshing' \in [Tabs -> BOOLEAN] /\ page' \in [Calls -> PageRecords]
         /\ page'[r].tab = t /\ page'[r].kind = page[r].kind /\ page'[r].st = "refreshing"
         /\ page'[f].tab = t /\ page'[f].kind = "refresh" /\ page'[f].st = "waiting"
         /\ page'[f].of = r
         /\ call'[r] = Idle /\ call'[f] = Sent("refresh", 0, cookie)
         /\ \A c \in Calls : c # r /\ c # f => page'[c] = page[c] /\ call'[c] = call[c]
         /\ DOMAIN call' = Calls /\ call' = [c \in Calls |-> call'[c]]
<1> DEFINE t == page[r].tab
<1>1. /\ r \in Requests /\ r \in Calls /\ f \in Calls /\ r # f
      /\ UNCHANGED <<tokens, revokedJti, store, saved, cookie, leaving>>
      /\ page[r].st = "waiting" /\ page[f] = NoPage /\ call[f] = Idle
      /\ ~isRefreshing[t]
  BY CallFacts DEF StartRefresh, Waiting, Free, MayRefresh
<1>2. page[r] # NoPage /\ t \in Tabs
  BY <1>1, NoPageFields DEF PageInv, RequestOK
<1>3. PICK p : p = Retrying(r)
  OBVIOUS
<1>4. /\ p.tab = t /\ p.kind = page[r].kind /\ p.st = "refreshing" /\ p \in PageRecords
  <2>1. page[r] \in PageRecords
    BY <1>1 DEF PageInv, PageTypes
  <2>2. PICK g : g = [page[r] EXCEPT !.st = "refreshing"]
    OBVIOUS
  <2>3. g.tab = t /\ g.kind = page[r].kind /\ g.st = "refreshing" /\ g \in PageRecords
    BY <2>1, <2>2 DEF PageRecords
  <2>4. p = [g EXCEPT !.retry = TRUE]
    BY <1>3, <2>2 DEF Retrying
  <2> QED
    BY <2>3, <2>4 DEF PageRecords
<1>5. PICK q : q = [NoPage EXCEPT !.tab = t, !.st = "waiting", !.kind = "refresh", !.of = r]
  OBVIOUS
<1>6. q.tab = t /\ q.kind = "refresh" /\ q.st = "waiting" /\ q.of = r /\ q \in PageRecords
  BY <1>1, <1>2, <1>5 DEF NoPage, PageRecords, Kinds
<1>7. page' = [page EXCEPT ![r] = p, ![f] = q]
  BY <1>3, <1>5 DEF StartRefresh
<1>8. /\ page' \in [Calls -> PageRecords] /\ page'[r] = p /\ page'[f] = q
      /\ \A c \in Calls : c # r /\ c # f => page'[c] = page[c]
  BY <1>1, <1>4, <1>6, <1>7 DEF PageInv, PageTypes
<1>9. call' = [call EXCEPT ![r] = Idle, ![f] = Sent("refresh", 0, cookie)]
  BY DEF StartRefresh
<1>10. /\ call'[r] = Idle /\ call'[f] = Sent("refresh", 0, cookie)
       /\ \A c \in Calls : c # r /\ c # f => call'[c] = call[c]
       /\ DOMAIN call' = Calls /\ call' = [c \in Calls |-> call'[c]]
  BY <1>1, <1>9 DEF ServerInv
<1>11. isRefreshing' = [isRefreshing EXCEPT ![t] = TRUE]
  BY DEF StartRefresh
<1>12. /\ isRefreshing'[t] /\ isRefreshing' \in [Tabs -> BOOLEAN]
       /\ \A u \in Tabs : u # t => isRefreshing'[u] = isRefreshing[u]
  BY <1>2, <1>11 DEF PageInv, PageTypes
<1> QED
  BY <1>1, <1>2, <1>4, <1>6, <1>8, <1>10, <1>12

LEMMA StartRefreshInv ==
  ASSUME ServerInv, PageInv, NEW r, NEW f \in Refreshes, StartRefresh(r, f)
  PROVE  /\ ServerInv' /\ PageInv' /\ disturbed \subseteq disturbed'
         /\ call'[f].kind = "refresh" /\ call'[f].cookie = cookie /\ call'[f].pc = "sent"
<1>1. 0 \in Known /\ cookie \in Known /\ Known \subseteq Nat /\ "refresh" \in Kinds \ {"none"}
  BY LenFacts DEF ServerInv, PageInv, PageTypes, Known, Kinds
<1>2. \A c \in Calls : Exchanged(c)
  BY <1>1, StartFacts DEF Exchanged
<1>3. ServerInv'
  BY <1>2, StartFacts, ExchangeInv
<1>4. call'[f].kind = "refresh" /\ call'[f].cookie = cookie /\ call'[f].pc = "sent"
  BY <1>1, StartFacts, SentFields
<1>5. disturbed \subseteq disturbed' /\ disturbed' \subseteq Nat
  <2>1. Family(cookie) \in Nat
    BY <1>1, FamilyIsNat
  <2> QED
    BY <2>1 DEF StartRefresh, Disturb, PageInv, PageTypes
<1>6. PageTypes'
  BY <1>1, <1>5, StartFacts DEF PageInv, PageTypes, Known
<1>7. ASSUME NEW q \in Requests PROVE RequestOK(q)'
  <2>1. RequestOK(q) /\ q \in Calls /\ q # f
    BY CallFacts DEF PageInv
  <2>2. CASE q = r
    BY <2>1, <2>2, StartFacts DEF RequestOK
  <2>3. CASE q # r
    BY <2>1, <2>3, StartFacts DEF RequestOK
  <2> QED
    BY <2>2, <2>3
<1>8. \A n : Family(n)' = Family(n)
  BY StartFacts DEF Family
<1>9. ASSUME NEW g \in Refreshes, g # f PROVE RefreshOK(g)'
  <2>1. RefreshOK(g) /\ g \in Calls /\ g # r /\ \A e \in Refreshes : e \in Calls /\ e # r
    BY CallFacts, StartFacts DEF PageInv
  <2>2. /\ page'[g] = page[g] /\ call'[g] = call[g]
        /\ \A e \in Refreshes : e # f => page'[e] = page[e]
    BY <1>9, <2>1, StartFacts
  <2>3. page[g] # NoPage =>
          /\ page[g].of # r /\ page'[page[g].of] = page[page[g].of]
          /\ page[g].tab # page[r].tab
    BY <2>1, CallFacts, StartFacts DEF RefreshOK
  <2>4. page[g] # NoPage => isRefreshing'[page[g].tab]
    BY <2>1, <2>3, StartFacts DEF RefreshOK
  <2>5. page[g] # NoPage =>
          \A e \in Refreshes : page'[e] # NoPage /\ page'[e].tab = page[g].tab => e = g
    BY <2>1, <2>2, <2>3, StartFacts DEF RefreshOK
  <2> QED
    BY <1>5, <1>8, <2>1, <2>2, <2>3, <2>4, <2>5 DEF RefreshOK
<1>10. RefreshOK(f)'
  <2>1. page'[f] # NoPage
    BY StartFacts, NoPageFields
  <2>2. \A e \in Refreshes : e # f => page'[e] = page[e]
    BY CallFacts, StartFacts
  <2>3. \A e \in Refreshes : page'[e] # NoPage /\ page'[e].tab = page[r].tab => e = f
    BY <2>2, StartFacts DEF PageInv, RefreshOK
  <2> QED
    BY <1>4, <2>1, <2>3, StartFacts DEF RefreshOK
<1>11. PageInv'
  BY <1>6, <1>7, <1>9, <1>10 DEF PageInv
<1> QED
  BY <1>3, <1>4, <1>5, <1>11

LEMMA DiscardInv ==
  ASSUME ServerInv, PageInv, NEW c \in Calls, Discard(c)
  PROVE  ServerInv' /\ PageInv'
<1>1. /\ page[c] = NoPage /\ call' = [call EXCEPT ![c] = Idle]
      /\ UNCHANGED <<tokens, revokedJti, page, store, saved, cookie, isRefreshing, leaving, disturbed>>
  BY DEF Discard, pageVars
<1>2. ServerInv' /\ call'[c] = Idle /\ \A d \in Calls : d # c => call'[d] = call[d]
  BY <1>1, TakenInv
<1>3. PageTypes'
  BY <1>1 DEF PageInv, PageTypes, Known
<1>4. ASSUME NEW r \in Requests PROVE RequestOK(r)'
  <2>1. RequestOK(r) /\ r \in Calls
    BY CallFacts DEF PageInv
  <2> QED
    BY <1>1, <1>2, <2>1 DEF RequestOK
<1>5. \A n : Family(n)' = Family(n)
  BY <1>1 DEF Family
<1>6. ASSUME NEW f \in Refreshes PROVE RefreshOK(f)'
  <2>1. RefreshOK(f) /\ f \in Calls
    BY CallFacts DEF PageInv
  <2> QED
    BY <1>1, <1>2, <1>5, <2>1, IdleFields DEF RefreshOK
<1> QED
  BY <1>2, <1>3, <1>4, <1>6 DEF PageInv

(* The page before is forgotten, and with it the refresh it waited for. *)
LEMMA ReloadInv ==
  ASSUME ServerInv, PageInv, NEW t \in Tabs, Reload(t)
  PROVE  ServerInv' /\ PageInv' /\ disturbed \subseteq disturbed'
<1> DEFINE Forgotten == {c \in Calls : page[c].tab = t}
<1>1. /\ UNCHANGED <<tokens, revokedJti, call, saved, cookie>>
      /\ page' = [c \in Calls |-> IF c \in Forgotten THEN NoPage ELSE page[c]]
      /\ store' = [store EXCEPT ![t] = saved]
      /\ isRefreshing' = [isRefreshing EXCEPT ![t] = FALSE]
      /\ leaving' = leaving \ {t}
      /\ Disturb({Family(call[f].cookie) : f \in Forgotten \cap Refreshes})
  BY DEF Reload, serverVars
<1>2. ServerInv'
  <2>1. \A d \in Calls : Exchanged(d)
    BY <1>1 DEF Exchanged
  <2>2. DOMAIN call' = Calls /\ call' = [d \in Calls |-> call'[d]]
    BY <1>1 DEF ServerInv
  <2> QED
    BY <1>1, <2>1, <2>2, ExchangeInv
<1>3. \A c \in Calls : call[c].cookie \in Known
  BY DEF ServerInv, HoldsRight, CallOK
<1>4. \A c \in Calls : Family(call[c].cookie) \in Nat
  BY <1>3, FamilyIsNat
<1>5. /\ disturbed \subseteq disturbed' /\ disturbed' \subseteq Nat
      /\ \A f \in Refreshes : f \in Forgotten /\ Family(call[f].cookie) # 0 =>
           Family(call[f].cookie) \in disturbed'
  BY <1>1, <1>4, CallFacts DEF Disturb, PageInv, PageTypes
<1>6. \A c \in Calls : page'[c] = IF page[c].tab = t THEN NoPage ELSE page[c]
  BY <1>1
<1>7. PageTypes'
  <2>1. page' \in [Calls -> PageRecords]
    BY <1>1, NoPageFields DEF PageInv, PageTypes
  <2>2. isRefreshing' \in [Tabs -> BOOLEAN]
    BY <1>1 DEF PageInv, PageTypes
  <2>3. store' \in [Tabs -> Known]
    BY <1>1 DEF PageInv, PageTypes
  <2> QED
    BY <1>1, <1>5, <2>1, <2>2, <2>3 DEF PageInv, PageTypes, Known
<1>8. \A u \in Tabs : u # t => isRefreshing'[u] = isRefreshing[u]
  BY <1>1 DEF PageInv, PageTypes
<1>9. ASSUME NEW r \in Requests PROVE RequestOK(r)'
  <2>1. RequestOK(r) /\ r \in Calls
    BY CallFacts DEF PageInv
  <2> QED
    BY <1>1, <1>6, <2>1 DEF RequestOK
<1>10. \A n : Family(n)' = Family(n)
  BY <1>1 DEF Family
<1>11. ASSUME NEW f \in Refreshes PROVE RefreshOK(f)'
  <2>1. RefreshOK(f) /\ f \in Calls /\ \A g \in Refreshes : g \in Calls
    BY CallFacts DEF PageInv
  <2>2. CASE page[f].tab = t
    <3>1. call[f].cookie # 0 => Family(call[f].cookie) # 0
      <4>1. PICK n \in Known : n = call[f].cookie
        BY <1>3, <2>1
      <4>2. n # 0 => n \in Issued
        BY <4>1, LenFacts DEF ServerInv
      <4>3. n # 0 => tokens[n].family \in 1 .. n
        BY <4>2 DEF ServerInv, TokensOK
      <4>4. n # 0 => Family(n) # 0
        BY <4>2, <4>3 DEF Family, Issued
      <4> QED
        BY <4>1, <4>4
    <3>2. page'[f] = NoPage
      BY <1>6, <2>1, <2>2
    <3> QED
      BY <1>1, <1>5, <1>10, <2>1, <2>2, <3>1, <3>2 DEF RefreshOK
  <2>3. CASE page[f].tab # t
    <3>1. page'[f] = page[f]
      BY <1>6, <2>1, <2>3
    <3>2. page[f] # NoPage =>
            /\ isRefreshing'[page[f].tab]
            /\ page[f].of \in Calls /\ page'[page[f].of] = page[page[f].of]
      BY <1>6, <1>8, <2>1, <2>3, CallFacts DEF RefreshOK
    <3>3. \A g \in Refreshes : page'[g] # NoPage => page'[g] = page[g]
      BY <1>6, <2>1
    <3> QED
      BY <1>1, <1>5, <1>10, <2>1, <3>1, <3>2, <3>3 DEF RefreshOK
  <2> QED
    BY <2>2, <2>3
<1> QED
  BY <1>2, <1>5, <1>7, <1>9, <1>11 DEF PageInv

(* The steps of the servers, with what they count and disturb. *)
LEMMA ServeInv ==
  ASSUME ServerInv, PageInv, NEW c \in Calls, Serve(c) \/ Fault(c) \/ RedisFault(c)
  PROVE  ServerInv' /\ PageInv'
<1>1. ServerStep(c) \/ Fail(c) \/ RefuseUnchecked(c)
  BY DEF Serve, Fault, RedisFault
<1>2. call[c].cookie \in Known
  BY DEF ServerInv, HoldsRight, CallOK
<1>3. /\ UNCHANGED <<page, store, saved, cookie, isRefreshing, leaving>>
      /\ disturbed \subseteq disturbed' /\ disturbed' \subseteq Nat
  <2>1. Family(call[c].cookie) \in Nat
    BY <1>2, FamilyIsNat
  <2> QED
    BY <2>1 DEF Serve, Fault, RedisFault, pageVars, Disturb, PageInv, PageTypes
<1>4. ServerInv' /\ TokensGrow
  BY <1>1, ServerStepsInv
<1>5. \A d \in Calls : call'[d] = call[d] \/ Moves(d)
  BY <1>1, ServerStepsMove
<1> QED
  BY <1>3, <1>4, <1>5, ServerMovesPages

LEMMA TimePassesInv ==
  ASSUME ServerInv, PageInv, TimePasses
  PROVE  ServerInv' /\ PageInv'
<1>1. PICK n \in Issued : Expire(n) /\ UNCHANGED pageVars
  BY DEF TimePasses
<1>2. ServerInv' /\ TokensGrow /\ UNCHANGED call
  BY <1>1, ExpireInv, ExpireEffect
<1>3. UNCHANGED <<page, store, saved, cookie, isRefreshing, leaving, disturbed>>
  BY <1>1 DEF pageVars
<1> QED
  BY <1>2, <1>3, ServerMovesPages DEF PageInv, PageTypes

LEMMA ServerAndPagesInit == Init => ServerInv /\ PageInv
<1> SUFFICES ASSUME Init PROVE ServerInv /\ PageInv
  OBVIOUS
<1>1. /\ tokens = <<>> /\ revokedJti = {} /\ call = [c \in Calls |-> Idle]
      /\ page = [c \in Calls |-> NoPage] /\ store = [t \in Tabs |-> 0] /\ saved = 0 /\ cookie = 0
      /\ isRefreshing = [t \in Tabs |-> FALSE] /\ leaving = {} /\ disturbed = {}
  BY DEF Init, InitServer
<1>2. TokensOK /\ Issued = {} /\ 0 \in Known
  BY <1>1 DEF TokensOK, Issued, Known
<1>3. Idle \in CallRecords
  BY DEF Idle, CallRecords, Kinds, Steps
<1>4. \A c \in Calls : HoldsRight(c)
  BY <1>1, <1>2, <1>3, IdleFields DEF HoldsRight, CallOK
<1>5. ServerInv
  BY <1>1, <1>2, <1>3, <1>4 DEF ServerInv, ReplacedIsRevoked
<1>6. PageInv
  BY <1>1, <1>2, NoPageFields, IdleFields, CallFacts
  DEF PageInv, PageTypes, RequestOK, RefreshOK
<1> QED
  BY <1>5, <1>6

-----------------------------------------------------------------------------
(* The families nobody has disturbed. *)

Live(n) == ~tokens[n].revoked

Refreshing(c) == call[c].kind = "refresh" /\ call[c].cookie # 0

Of(c) == Family(call[c].cookie)

Replacing(c) == Refreshing(c) /\ call[c].pc \in {"rotating", "ok"}

LogoutsDisturb ==
  \A c \in Calls : call[c].kind = "logout" /\ call[c].cookie # 0 => Of(c) \in disturbed

RefreshesAlone ==
  \A c, d \in Calls :
    Refreshing(c) /\ Refreshing(d) /\ Of(c) = Of(d) /\ Of(c) \notin disturbed => c = d

(* What a refresh holds of its family at each step. *)
RefreshHolds ==
  \A c \in Calls :
    Refreshing(c) /\ Of(c) \notin disturbed =>
      /\ call[c].pc # "reused"
      /\ call[c].pc \in {"sent", "found"} => Live(call[c].cookie)
      /\ call[c].pc = "rotating" => \A n \in Issued : tokens[n].family = Of(c) => ~Live(n)
      /\ call[c].pc = "ok" => Live(call[c].issued)

(* The cookie of the browser is alive, or about to be replaced. *)
JarHolds ==
  cookie # 0 /\ Family(cookie) \notin disturbed =>
    Live(cookie) \/ \E c \in Calls : Replacing(c) /\ Of(c) = Family(cookie)

(* A login that has not been answered yet: nobody else knows its tokens,   *)
(* the browser included.                                                   *)
JarFresh ==
  \A c \in Calls :
    At(c, "login", "ok") /\ call[c].issued \notin disturbed /\ cookie # 0 =>
      Family(cookie) # call[c].issued

LoginsFresh ==
  \A c \in Calls :
    At(c, "login", "ok") /\ call[c].issued \notin disturbed =>
      /\ Live(call[c].issued)
      /\ \A d \in Calls : Refreshing(d) => Of(d) # call[c].issued
      /\ \A d \in Calls : At(d, "login", "ok") /\ call[d].issued = call[c].issued => d = c

OneLive ==
  \A n, m \in Issued :
    /\ tokens[n].family = tokens[m].family /\ tokens[n].family \notin disturbed
    /\ Live(n) /\ Live(m)
    => n = m

Ledger ==
  LogoutsDisturb /\ RefreshesAlone /\ RefreshHolds /\ JarHolds /\ JarFresh /\ LoginsFresh /\ OneLive

IInv == ServerInv /\ PageInv /\ Ledger

(* Numbers the calls hold. *)
LEMMA HeldKnown ==
  ASSUME ServerInv
  PROVE  /\ \A c \in Calls : call[c].cookie \in Known /\ call[c].issued \in Known
         /\ \A c \in Calls : Refreshing(c) => call[c].cookie \in Issued
         /\ \A c \in Calls : call[c].pc = "ok" /\ call[c].kind \in {"login", "refresh"} =>
              call[c].issued \in Issued
         /\ \A c \in Calls : Refreshing(c) /\ call[c].pc = "ok" => Family(call[c].issued) = Of(c)
         /\ \A c \in Calls : At(c, "login", "ok") => Family(call[c].issued) = call[c].issued
         /\ \A n \in Issued : Family(n) = tokens[n].family /\ Family(n) \in Issued /\ n # 0
<1>1. \A c \in Calls : HoldsRight(c)
  BY DEF ServerInv
<1>2. \A c \in Calls : call[c].cookie \in Known /\ call[c].issued \in Known
  BY <1>1 DEF HoldsRight, CallOK
<1>3. \A n \in Known : n # 0 => n \in Issued
  BY LenFacts DEF ServerInv
<1>4. \A c \in Calls : Refreshing(c) => call[c].cookie \in Issued
  BY <1>2, <1>3 DEF Refreshing
<1>5. \A c \in Calls : call[c].pc = "ok" /\ call[c].kind \in {"login", "refresh"} =>
              call[c].issued \in Issued
  BY <1>1, <1>2, <1>3 DEF HoldsRight, CallOK
<1>6. \A c \in Calls : Refreshing(c) /\ call[c].pc = "ok" => Family(call[c].issued) = Of(c)
  BY <1>1 DEF HoldsRight, CallOK, Refreshing, Of
<1>7. \A c \in Calls : At(c, "login", "ok") => Family(call[c].issued) = call[c].issued
  BY <1>1 DEF HoldsRight, CallOK, At
<1>8. ASSUME NEW n \in Issued
      PROVE  Family(n) = tokens[n].family /\ Family(n) \in Issued /\ n # 0
  <2>1. n # 0 /\ tokens[n].family \in 1 .. n /\ Len(tokens) \in Nat
    BY LenFacts DEF ServerInv, TokensOK, Issued
  <2> QED
    BY <2>1 DEF Family, Issued
<1> QED
  BY <1>2, <1>4, <1>5, <1>6, <1>7, <1>8

(* A call becomes one that neither holds nor awaits a token of an          *)
(* undisturbed family.                                                     *)
Quiet(c) ==
  /\ call'[c].kind # "refresh"
  /\ ~(call'[c].kind = "login" /\ call'[c].pc = "ok")
  /\ call'[c].kind = "logout" /\ call'[c].cookie # 0 =>
       /\ call'[c].cookie \in Known
       /\ Family(call'[c].cookie) \in disturbed'

(* No token of an undisturbed family is issued or revoked. *)
FamiliesKept ==
  /\ Issued' = Issued /\ Known' = Known
  /\ \A n \in Known : Family(n)' = Family(n)
  /\ \A n \in Issued : tokens'[n].family = tokens[n].family
  /\ \A n \in Issued : tokens[n].family \notin disturbed' => (Live(n)' <=> Live(n))
  /\ disturbed \subseteq disturbed'

(* The cookie stays, or goes, and no refresh that was to replace it; or it *)
(* is replaced by one that is right.                                       *)
JarKept ==
  \/ /\ cookie' \in {cookie, 0}
     /\ \A c \in Calls : Replacing(c) /\ call'[c] # call[c] => Of(c) \in disturbed'
  \/ JarHolds' /\ JarFresh'

LEMMA QuietStep ==
  ASSUME ServerInv, ServerInv', Ledger, cookie \in Known, FamiliesKept, JarKept,
         \A c \in Calls : call'[c] = call[c] \/ Quiet(c)
  PROVE  Ledger'
<1>1. /\ Issued' = Issued /\ Known' = Known /\ disturbed \subseteq disturbed'
      /\ \A n \in Known : Family(n)' = Family(n)
      /\ \A n \in Issued : tokens'[n].family = tokens[n].family
  BY DEF FamiliesKept
<1>2. ASSUME NEW c \in Calls, Refreshing(c)'
      PROVE  /\ call'[c] = call[c] /\ Refreshing(c) /\ Of(c)' = Of(c)
             /\ Of(c) \notin disturbed' => Of(c) \notin disturbed
  <2>1. call'[c] = call[c]
    BY <1>2 DEF Quiet, Refreshing
  <2>2. call[c].cookie \in Known
    BY HeldKnown
  <2> QED
    BY <1>1, <1>2, <2>1, <2>2 DEF Refreshing, Of
<1>3. ASSUME NEW c \in Calls, At(c, "login", "ok")'
      PROVE  call'[c] = call[c] /\ At(c, "login", "ok")
  BY <1>3 DEF Quiet, At
<1>4. ASSUME NEW n \in Issued, Family(n) \notin disturbed'
      PROVE  Live(n)' <=> Live(n)
  BY <1>4, HeldKnown DEF FamiliesKept
<1>5. LogoutsDisturb'
  <2> SUFFICES ASSUME NEW c \in Calls, call'[c].kind = "logout", call'[c].cookie # 0
               PROVE  Of(c)' \in disturbed'
    BY DEF LogoutsDisturb
  <2>1. CASE call'[c] = call[c]
    <3>1. Of(c) \in disturbed /\ call[c].cookie \in Known
      BY <2>1, HeldKnown DEF Ledger, LogoutsDisturb
    <3>2. Of(c)' = Of(c)
      BY <1>1, <2>1, <3>1 DEF Of
    <3> QED
      BY <1>1, <3>1, <3>2
  <2>2. CASE Quiet(c)
    <3>1. PICK k : k = call'[c].cookie
      OBVIOUS
    <3>2. k \in Known /\ Family(k) \in disturbed'
      BY <2>2, <3>1 DEF Quiet
    <3>3. Family(k)' = Family(k) /\ Of(c)' = Family(k)'
      BY <1>1, <3>1, <3>2 DEF Of
    <3> QED
      BY <3>2, <3>3
  <2> QED
    BY <2>1, <2>2
<1>6. RefreshesAlone'
  BY <1>1, <1>2 DEF Ledger, RefreshesAlone
<1>7. RefreshHolds'
  <2> SUFFICES ASSUME NEW c \in Calls, Refreshing(c)', Of(c)' \notin disturbed'
               PROVE  /\ call'[c].pc # "reused"
                      /\ call'[c].pc \in {"sent", "found"} => ~tokens'[call'[c].cookie].revoked
                      /\ call'[c].pc = "rotating" =>
                           \A n \in Issued' : tokens'[n].family = Of(c)' => tokens'[n].revoked
                      /\ call'[c].pc = "ok" => ~tokens'[call'[c].issued].revoked
    BY DEF RefreshHolds, Live
  <2>1. /\ call'[c] = call[c] /\ Refreshing(c) /\ Of(c)' = Of(c)
        /\ Of(c) \notin disturbed' /\ Of(c) \notin disturbed
    BY <1>2
  <2>2. /\ call[c].pc # "reused"
        /\ call[c].pc \in {"sent", "found"} => Live(call[c].cookie)
        /\ call[c].pc = "rotating" => \A n \in Issued : tokens[n].family = Of(c) => ~Live(n)
        /\ call[c].pc = "ok" => Live(call[c].issued)
    BY <2>1 DEF Ledger, RefreshHolds
  <2>3. PICK k, m : k = call[c].cookie /\ m = call[c].issued
    OBVIOUS
  <2>4. k \in Issued /\ Family(k) = Of(c)
    BY <2>1, <2>3, HeldKnown DEF Of
  <2>5. Live(k)' <=> Live(k)
    BY <1>4, <2>1, <2>4
  <2>6. call[c].pc = "ok" => m \in Issued /\ Family(m) = Of(c)
    BY <2>1, <2>3, HeldKnown DEF Refreshing
  <2>7. call[c].pc = "ok" => (Live(m)' <=> Live(m))
    BY <1>4, <2>1, <2>6
  <2>8. \A n \in Issued : tokens[n].family = Of(c) => (Live(n)' <=> Live(n))
    BY <1>4, <2>1, HeldKnown
  <2> QED
    BY <1>1, <2>1, <2>2, <2>3, <2>5, <2>7, <2>8 DEF Live
<1>8. JarHolds'
  <2>1. CASE cookie' \in {cookie, 0}
             /\ \A c \in Calls : Replacing(c) /\ call'[c] # call[c] => Of(c) \in disturbed'
    <3> SUFFICES ASSUME cookie' # 0, Family(cookie)' \notin disturbed',
                        ~(\E c \in Calls : Replacing(c)' /\ Of(c)' = Family(cookie)')
                 PROVE  Live(cookie)'
      BY DEF JarHolds
    <3>1. PICK k : k = cookie
      OBVIOUS
    <3>2. k = cookie' /\ k \in Issued /\ k # 0
      BY <2>1, <3>1, LenFacts DEF ServerInv
    <3>3. Family(k)' = Family(k) /\ Family(k) \notin disturbed' /\ Family(k) \notin disturbed
      BY <1>1, <3>1, <3>2
    <3>4. ASSUME NEW c \in Calls, Replacing(c), Of(c) = Family(k) PROVE FALSE
      <4>1. call'[c] = call[c]
        BY <2>1, <3>3, <3>4
      <4>2. Replacing(c)' /\ Of(c)' = Of(c)
        BY <1>1, <3>4, <4>1, HeldKnown DEF Replacing, Refreshing, Of
      <4> QED
        BY <3>1, <3>2, <3>3, <3>4, <4>2
    <3>5. Live(k)
      BY <3>1, <3>2, <3>3, <3>4 DEF Ledger, JarHolds
    <3>6. Live(k)'
      BY <1>4, <3>2, <3>3, <3>5
    <3> QED
      BY <3>2, <3>6 DEF Live
  <2> QED
    BY <2>1 DEF JarKept
<1>9. JarFresh'
  <2>1. CASE cookie' \in {cookie, 0}
    <3> SUFFICES ASSUME NEW c \in Calls, At(c, "login", "ok")', call'[c].issued \notin disturbed',
                        cookie' # 0
                 PROVE  Family(cookie)' # call'[c].issued
      BY DEF JarFresh
    <3>1. call'[c] = call[c] /\ At(c, "login", "ok") /\ call[c].issued \notin disturbed
      BY <1>1, <1>3
    <3>2. Family(cookie) # call[c].issued
      BY <2>1, <3>1 DEF Ledger, JarFresh
    <3>3. PICK k : k = cookie
      OBVIOUS
    <3>4. Family(cookie)' = Family(k)'
      BY <2>1, <3>3 DEF Family
    <3> QED
      BY <1>1, <3>1, <3>2, <3>3, <3>4
  <2> QED
    BY <2>1 DEF JarKept
<1>10. LoginsFresh'
  <2> SUFFICES ASSUME NEW c \in Calls, At(c, "login", "ok")', call'[c].issued \notin disturbed'
               PROVE  /\ ~tokens'[call'[c].issued].revoked
                      /\ \A d \in Calls : Refreshing(d)' => Of(d)' # call'[c].issued
                      /\ \A d \in Calls :
                           At(d, "login", "ok")' /\ call'[d].issued = call'[c].issued => d = c
    BY DEF LoginsFresh, Live
  <2>1. /\ call'[c] = call[c] /\ At(c, "login", "ok")
        /\ call[c].issued \notin disturbed /\ call[c].issued \notin disturbed'
    BY <1>1, <1>3
  <2>2. /\ Live(call[c].issued)
        /\ \A d \in Calls : Refreshing(d) => Of(d) # call[c].issued
        /\ \A d \in Calls : At(d, "login", "ok") /\ call[d].issued = call[c].issued => d = c
    BY <2>1 DEF Ledger, LoginsFresh
  <2>3. PICK m : m = call[c].issued
    OBVIOUS
  <2>4. m \in Issued /\ Family(m) = m
    BY <2>1, <2>3, HeldKnown DEF At
  <2>5. Live(m)'
    BY <1>4, <2>1, <2>2, <2>3, <2>4
  <2>6. \A d \in Calls : Refreshing(d)' => Of(d)' # m
    BY <1>2, <2>2, <2>3
  <2>7. \A d \in Calls : At(d, "login", "ok")' /\ call'[d].issued = m => d = c
    BY <1>3, <2>2, <2>3
  <2> QED
    BY <2>1, <2>3, <2>5, <2>6, <2>7 DEF Live
<1>11. OneLive'
  <2> SUFFICES ASSUME NEW n \in Issued, NEW m \in Issued,
                      tokens'[n].family = tokens'[m].family,
                      tokens'[n].family \notin disturbed', Live(n)', Live(m)'
               PROVE  n = m
    BY <1>1 DEF OneLive
  <2>1. Live(n) /\ Live(m) /\ tokens[n].family = tokens[m].family /\ tokens[n].family \notin disturbed
    BY <1>1, <1>4, HeldKnown
  <2> QED
    BY <2>1 DEF Ledger, OneLive
<1> QED
  BY <1>5, <1>6, <1>7, <1>8, <1>9, <1>10, <1>11 DEF Ledger

(* One call goes quiet, and no token changes. *)
LEMMA QuietCall ==
  ASSUME ServerInv, ServerInv', Ledger, cookie \in Known, UNCHANGED tokens,
         disturbed \subseteq disturbed', cookie' \in {cookie, 0},
         NEW c \in Calls, Quiet(c), \A d \in Calls : d # c => call'[d] = call[d],
         Replacing(c) => Of(c) \in disturbed'
  PROVE  Ledger'
<1>1. FamiliesKept
  BY DEF FamiliesKept, Issued, Known, Family, Live
<1>2. JarKept
  BY DEF JarKept
<1> QED
  BY <1>1, <1>2, QuietStep

LEMMA AnswersQuiet ==
  ASSUME ServerInv, ServerInv', PageInv, Ledger, UNCHANGED <<tokens, cookie>>,
         disturbed \subseteq disturbed',
         NEW c \in Calls, NEW pc \in Answered, Answers(c, pc),
         Replacing(c) => Of(c) \in disturbed'
  PROVE  Ledger'
<1>1. call'[c].kind = "none" /\ \A d \in Calls : d # c => call'[d] = call[d]
  BY AnswersEffect DEF ServerInv
<1>2. Quiet(c)
  BY <1>1 DEF Quiet
<1> QED
  BY <1>1, <1>2, QuietCall DEF PageInv, PageTypes

LEMMA LogoutQuiet ==
  ASSUME ServerInv, ServerInv', PageInv, Ledger, UNCHANGED <<cookie, disturbed>>, FamiliesKept,
         NEW c \in Calls, NEW pc \in Steps, Becomes(c, pc), call[c].kind = "logout"
  PROVE  Ledger'
<1>1. call'[c].kind = "logout" /\ call'[c].cookie = call[c].cookie
      /\ \A d \in Calls : d # c => call'[d] = call[d]
  BY BecomesEffect
<1>2. call[c].cookie \in Known /\ (call[c].cookie # 0 => Family(call[c].cookie) \in disturbed)
  BY HeldKnown DEF Ledger, LogoutsDisturb, Of
<1>3. Quiet(c)
  BY <1>1, <1>2 DEF Quiet
<1>4. JarKept
  BY <1>1 DEF JarKept, Replacing, Refreshing
<1>5. \A d \in Calls : call'[d] = call[d] \/ Quiet(d)
  BY <1>1, <1>3
<1> QED
  BY <1>4, <1>5, QuietStep DEF PageInv, PageTypes

LEMMA GatewayLedger ==
  ASSUME ServerInv, ServerInv', PageInv, Ledger, UNCHANGED <<cookie, disturbed>>,
         NEW c \in Calls,
         Admit(c) \/ Refuse(c) \/ RefuseUnchecked(c) \/ RevokeAccessToken(c)
         \/ BadCredentials(c) \/ ExpiredMeanwhile(c) \/ ScanForLogout(c) \/ FinishLogout(c)
  PROVE  Ledger'
<1>1. UNCHANGED tokens
  BY DEF Admit, Refuse, RefuseUnchecked, RevokeAccessToken, BadCredentials, ExpiredMeanwhile,
         ScanForLogout, FinishLogout
<1>2. FamiliesKept
  BY <1>1 DEF FamiliesKept, Issued, Known, Family, Live
<1>3. CASE Refuse(c) \/ RefuseUnchecked(c) \/ BadCredentials(c) \/ ExpiredMeanwhile(c)
           \/ (Admit(c) /\ call[c].kind = "data")
  <2>1. PICK pc \in Answered : Answers(c, pc)
    BY <1>3 DEF Admit, Refuse, RefuseUnchecked, BadCredentials, ExpiredMeanwhile, Answered
  <2>2. ~Replacing(c)
    BY <1>3 DEF Admit, Refuse, RefuseUnchecked, BadCredentials, ExpiredMeanwhile, Protected, At,
                Replacing, Refreshing
  <2> QED
    BY <1>1, <2>1, <2>2, AnswersQuiet
<1>4. CASE RevokeAccessToken(c) \/ ScanForLogout(c) \/ FinishLogout(c)
           \/ (Admit(c) /\ call[c].kind = "logout")
  <2>1. PICK pc \in Steps : Becomes(c, pc)
    BY <1>4 DEF Admit, RevokeAccessToken, ScanForLogout, FinishLogout, Steps
  <2>2. call[c].kind = "logout"
    BY <1>4 DEF RevokeAccessToken, ScanForLogout, FinishLogout, At
  <2> QED
    BY <1>2, <2>1, <2>2, LogoutQuiet
<1> QED
  BY <1>3, <1>4 DEF Admit, Protected

(* Logout revokes a token, and reuse a family, that is disturbed already. *)
LEMMA RevokeOwnLedger ==
  ASSUME ServerInv, ServerInv', PageInv, Ledger, UNCHANGED <<cookie, disturbed>>,
         NEW c \in Calls, RevokeOwn(c)
  PROVE  Ledger'
<1>1. call[c].cookie \in Issued /\ TokensOK
  BY RevokeOneInv DEF ServerInv
<1>2. PICK k \in Issued : k = call[c].cookie
  BY <1>1
<1>3. Becomes(c, "scanned") /\ call[c].kind = "logout" /\ Revokes(k)
  BY <1>2 DEF RevokeOwn, At, Revokes
<1>4. Family(k) \in disturbed
  BY <1>2, <1>3, HeldKnown DEF Ledger, LogoutsDisturb, Of
<1>5. /\ Len(tokens') = Len(tokens)
      /\ \A n \in Issued : tokens'[n].family = tokens[n].family
      /\ \A n \in Issued : n # k => tokens'[n] = tokens[n]
  BY <1>1, <1>3, RevokedOne
<1>6. \A n \in Known : n # 0 => n \in Issued
  BY <1>1, LenFacts
<1>7. FamiliesKept
  <2>1. \A n \in Known : Family(n)' = Family(n)
    BY <1>5, <1>6 DEF Family
  <2>2. \A n \in Issued : tokens[n].family \notin disturbed' => n # k
    BY <1>4, HeldKnown
  <2> QED
    BY <1>5, <2>1, <2>2 DEF FamiliesKept, Issued, Known, Live
<1> QED
  BY <1>3, <1>7, LogoutQuiet DEF Steps

LEMMA RevokeFamilyLedger ==
  ASSUME ServerInv, ServerInv', PageInv, Ledger, UNCHANGED <<cookie, disturbed>>,
         NEW c \in Calls, RevokeFamily(c)
  PROVE  Ledger'
<1>1. At(c, "refresh", "reused") /\ Answers(c, "unauthorized")
  BY DEF RevokeFamily
<1>2. HoldsRight(c)
  BY DEF ServerInv
<1>3. Refreshing(c)
  BY <1>1, <1>2 DEF HoldsRight, CallOK, Refreshing, At
<1>4. Of(c) \in disturbed
  BY <1>1, <1>3 DEF Ledger, RefreshHolds, At
<1>5. /\ Len(tokens') = Len(tokens)
      /\ \A n \in Issued :
           /\ tokens'[n].family = tokens[n].family
           /\ tokens[n].family # Of(c) => tokens'[n] = tokens[n]
  BY RevokeFamilyEffect DEF Of
<1>6. \A n \in Known : n # 0 => n \in Issued
  BY LenFacts DEF ServerInv
<1>7. FamiliesKept
  <2>1. \A n \in Known : Family(n)' = Family(n)
    BY <1>5, <1>6 DEF Family
  <2> QED
    BY <1>4, <1>5, <2>1 DEF FamiliesKept, Issued, Known, Live
<1>8. call'[c].kind = "none" /\ \A d \in Calls : d # c => call'[d] = call[d]
  BY <1>1, AnswersEffect DEF ServerInv, Answered
<1>9. JarKept
  BY <1>4, <1>8 DEF JarKept
<1>10. \A d \in Calls : call'[d] = call[d] \/ Quiet(d)
  BY <1>8 DEF Quiet
<1> QED
  BY <1>7, <1>9, <1>10, QuietStep DEF PageInv, PageTypes

LEMMA FaultLedger ==
  ASSUME ServerInv, ServerInv', PageInv, Ledger, NEW c \in Calls, Fault(c)
  PROVE  Ledger'
<1>1. /\ Answers(c, "failed") /\ UNCHANGED <<tokens, cookie>>
      /\ disturbed' = disturbed
           \cup ((IF call[c].kind = "refresh" THEN {Family(call[c].cookie)} ELSE {}) \ {0})
  BY DEF Fault, Fail, Disturb
<1>2. Replacing(c) => Of(c) \in disturbed'
  <2>1. Refreshing(c) => Family(call[c].cookie) # 0
    BY HeldKnown
  <2> QED
    BY <1>1, <2>1 DEF Replacing, Refreshing, Of
<1> QED
  BY <1>1, <1>2, AnswersQuiet DEF Answered

(* No call moves. *)
LEMMA CallsStay ==
  ASSUME ServerInv, ServerInv', PageInv, Ledger, UNCHANGED <<cookie, call>>, FamiliesKept
  PROVE  Ledger'
<1>1. JarKept
  BY DEF JarKept
<1> QED
  BY <1>1, QuietStep DEF PageInv, PageTypes

LEMMA TimePassesLedger ==
  ASSUME ServerInv, ServerInv', PageInv, Ledger, TimePasses
  PROVE  Ledger'
<1>1. PICK m \in Issued : Expire(m) /\ UNCHANGED pageVars
  BY DEF TimePasses
<1>2. /\ UNCHANGED call /\ Len(tokens') = Len(tokens)
      /\ \A n \in Issued : /\ tokens'[n].family = tokens[n].family
                           /\ tokens'[n].revoked = tokens[n].revoked
  BY <1>1, ExpireEffect
<1>3. \A n \in Known : n # 0 => n \in Issued
  BY LenFacts DEF ServerInv
<1>4. UNCHANGED <<cookie, disturbed>>
  BY <1>1 DEF pageVars
<1>5. \A n \in Known : Family(n)' = Family(n)
  BY <1>2, <1>3 DEF Family
<1>6. FamiliesKept
  BY <1>2, <1>4, <1>5 DEF FamiliesKept, Issued, Known, Live
<1> QED
  BY <1>2, <1>4, <1>6, CallsStay

LEMMA CutLedger ==
  ASSUME ServerInv, ServerInv', PageInv, Ledger, NEW c \in Calls, Cut(c)
  PROVE  Ledger'
<1>1. UNCHANGED <<tokens, call, cookie>> /\ disturbed \subseteq disturbed'
  BY DEF Cut, Disturb, serverVars, RejectRequest, AbandonRefresh
<1>2. FamiliesKept
  BY <1>1 DEF FamiliesKept, Issued, Known, Family, Live
<1> QED
  BY <1>1, <1>2, CallsStay

LEMMA ReloadLedger ==
  ASSUME ServerInv, ServerInv', PageInv, Ledger, NEW t \in Tabs, Reload(t)
  PROVE  Ledger'
<1>1. UNCHANGED <<tokens, call, cookie>> /\ disturbed \subseteq disturbed'
  BY DEF Reload, Disturb, serverVars
<1>2. FamiliesKept
  BY <1>1 DEF FamiliesKept, Issued, Known, Family, Live
<1> QED
  BY <1>1, <1>2, CallsStay

LEMMA SendLedger ==
  ASSUME ServerInv, ServerInv', PageInv, Ledger, NEW t \in Tabs, NEW r \in Requests,
         NEW kind \in {"data", "login", "logout"}, Send(t, r, kind)
  PROVE  Ledger'
<1>1. /\ UNCHANGED <<tokens, cookie>> /\ call'[r] = Sent(kind, store[t], cookie)
      /\ \A d \in Calls : r # d => call'[d] = call[d]
      /\ disturbed' = disturbed \cup ((IF kind = "logout" THEN {Family(cookie)} ELSE {}) \ {0})
  BY SendFacts
<1>2. call[r] = Idle /\ r \in Calls
  BY CallFacts DEF Send, Free
<1>3. ~Replacing(r)
  BY <1>2, IdleFields DEF Replacing, Refreshing
<1>4. cookie \in Known /\ store[t] \in Known
  BY DEF PageInv, PageTypes
<1>5. kind \in Kinds /\ store[t] \in Nat /\ cookie \in Nat
  BY <1>4 DEF Kinds, Known
<1>6. /\ call'[r].kind = kind /\ call'[r].pc = "sent" /\ call'[r].cookie \in {0, cookie}
  BY <1>1, <1>5, SentFields
<1>7. cookie # 0 => Family(cookie) # 0
  BY <1>4, HeldKnown, LenFacts DEF ServerInv
<1>8. Quiet(r)
  BY <1>1, <1>4, <1>6, <1>7 DEF Quiet
<1> QED
  BY <1>1, <1>2, <1>3, <1>4, <1>8, QuietCall

(* An answer is taken that brings no token. *)
LEMMA TakenLedger ==
  ASSUME ServerInv, ServerInv', PageInv, Ledger, UNCHANGED <<tokens, revokedJti, disturbed>>,
         NEW c \in Calls, call' = [call EXCEPT ![c] = Idle], cookie' \in {cookie, 0},
         Replacing(c) => Of(c) \in disturbed
  PROVE  Ledger'
<1>1. call'[c] = Idle /\ \A d \in Calls : d # c => call'[d] = call[d]
  BY TakenInv
<1>2. Quiet(c)
  BY <1>1, IdleFields DEF Quiet
<1> QED
  BY <1>1, <1>2, QuietCall DEF PageInv, PageTypes

LEMMA AcceptLedger ==
  ASSUME ServerInv, ServerInv', PageInv, Ledger, NEW r \in Requests, Accept(r)
  PROVE  Ledger'
<1>1. /\ UNCHANGED <<tokens, revokedJti, disturbed>> /\ call' = [call EXCEPT ![r] = Idle]
  BY DEF Accept
<1>2. HoldsRight(r) /\ r \in Calls /\ r \notin Refreshes
  BY CallFacts DEF ServerInv
<1>3. ~Replacing(r)
  BY <1>2 DEF Replacing, Refreshing, HoldsRight, CallOK
<1>4. CASE page[r].kind # "login"
  BY <1>1, <1>2, <1>3, <1>4, AcceptTypes, TakenLedger
<1>5. CASE page[r].kind = "login"
  <2>1. At(r, "login", "ok") /\ cookie' = call[r].issued
    BY <1>5, AcceptTypes DEF At
  <2>2. PICK n : n = call[r].issued
    OBVIOUS
  <2>3. n \in Issued /\ Family(n) = n
    BY <1>2, <2>1, <2>2, HeldKnown DEF At
  <2>4. Family(n)' = Family(n) /\ Live(n)' = Live(n)
    BY <1>1 DEF Family, Live
  <2>5. call'[r] = Idle /\ \A d \in Calls : d # r => call'[d] = call[d]
    BY <1>1, <1>2, TakenInv
  <2>6. JarHolds'
    <3>1. n \notin disturbed => Live(n)
      BY <1>2, <2>1, <2>2 DEF Ledger, LoginsFresh
    <3>2. cookie' = n /\ Family(cookie)' = n /\ Live(cookie)' = Live(n)
      BY <2>1, <2>2, <2>3, <2>4 DEF Family, Live
    <3> QED
      BY <1>1, <3>1, <3>2 DEF JarHolds
  <2>7. JarFresh'
    <3> SUFFICES ASSUME NEW c \in Calls, At(c, "login", "ok")', call'[c].issued \notin disturbed',
                        cookie' # 0, Family(cookie)' = call'[c].issued
                 PROVE  FALSE
      BY DEF JarFresh
    <3>1. c # r
      BY <2>5, IdleFields DEF At
    <3>2. call'[c] = call[c] /\ At(c, "login", "ok")
      BY <2>5, <3>1 DEF At
    <3>3. call[c].issued = n /\ n \notin disturbed
      BY <1>1, <2>1, <2>2, <2>3, <2>4, <3>2 DEF Family
    <3> QED
      BY <1>2, <2>1, <2>2, <3>1, <3>2, <3>3 DEF Ledger, LoginsFresh
  <2>8. FamiliesKept
    BY <1>1 DEF FamiliesKept, Issued, Known, Family, Live
  <2>9. \A d \in Calls : call'[d] = call[d] \/ Quiet(d)
    BY <2>5, IdleFields DEF Quiet
  <2> QED
    BY <2>6, <2>7, <2>8, <2>9, QuietStep DEF JarKept, PageInv, PageTypes
<1> QED
  BY <1>4, <1>5

LEMMA RefusalLedger ==
  ASSUME ServerInv, ServerInv', PageInv, Ledger, NEW c \in Calls,
         Enqueue(c) \/ Reject(c) \/ Discard(c)
  PROVE  Ledger'
<1>1. UNCHANGED <<tokens, revokedJti, disturbed, cookie>> /\ call' = [call EXCEPT ![c] = Idle]
  BY DEF Enqueue, Reject, Discard, RejectRequest, AbandonRefresh, pageVars
<1>2. Replacing(c) => Of(c) \in disturbed
  <2>1. HoldsRight(c)
    BY DEF ServerInv
  <2>2. Replacing(c) => c \in Refreshes /\ call[c].kind = "refresh" /\ call[c].cookie # 0
    BY <2>1 DEF Replacing, Refreshing, HoldsRight, CallOK
  <2>3. CASE Discard(c)
    <3>1. page[c] = NoPage
      BY <2>3 DEF Discard
    <3> QED
      BY <2>2, <3>1 DEF PageInv, RefreshOK, Of
  <2>4. CASE Enqueue(c) \/ Reject(c)
    BY <2>4 DEF Enqueue, Reject, Replacing
  <2> QED
    BY <2>3, <2>4
<1> QED
  BY <1>1, <1>2, TakenLedger

LEMMA FinishRefreshLedger ==
  ASSUME ServerInv, ServerInv', PageInv, Ledger, NEW f \in Refreshes, FinishRefresh(f)
  PROVE  Ledger'
<1>1. PICK n : n = call[f].issued
  OBVIOUS
<1>2. /\ f \in Calls /\ call[f].kind = "refresh" /\ call[f].pc = "ok"
      /\ n \in Known /\ n # 0 /\ cookie' = n /\ UNCHANGED <<tokens, revokedJti>>
      /\ call'[f] = Idle
      /\ \A r \in Replayed(f) : /\ page[r].kind \in {"data", "login", "logout"}
                                /\ call'[r] = Sent(page[r].kind, n, n)
      /\ \A c \in Calls : c # f /\ c \notin Replayed(f) => call'[c] = call[c]
      /\ disturbed' = disturbed \cup
           ((IF \E r \in Replayed(f) : page[r].kind = "logout" THEN {Family(n)} ELSE {}) \ {0})
  BY <1>1, FinishFacts
<1>3. HoldsRight(f)
  BY <1>2 DEF ServerInv
<1>4. Refreshing(f) /\ n \in Issued /\ Family(n) = Of(f) /\ Family(n) # 0 /\ n \in Nat
  <2>1. Refreshing(f)
    BY <1>2, <1>3 DEF Refreshing, HoldsRight, CallOK
  <2>2. n \in Issued
    BY <1>2, LenFacts DEF ServerInv
  <2> QED
    BY <1>1, <1>2, <2>1, <2>2, HeldKnown DEF Known
<1>5. FamiliesKept
  BY <1>2 DEF FamiliesKept, Issued, Known, Family, Live
<1>6. ASSUME NEW r \in Replayed(f)
      PROVE  call'[r].kind = page[r].kind /\ call'[r].pc = "sent" /\ call'[r].cookie \in {0, n}
  <2>1. page[r].kind \in Kinds
    BY <1>2 DEF Kinds
  <2> QED
    BY <1>2, <1>4, <2>1, SentFields
<1>7. ASSUME NEW c \in Calls PROVE call'[c] = call[c] \/ Quiet(c)
  <2>1. CASE c = f
    BY <1>2, <2>1, IdleFields DEF Quiet
  <2>2. CASE c \in Replayed(f)
    <3>1. call'[c].kind = page[c].kind /\ call'[c].pc = "sent" /\ call'[c].cookie \in {0, n}
      BY <1>6, <2>2
    <3>2. page[c].kind \in {"data", "login", "logout"}
      BY <1>2, <2>2
    <3>3. page[c].kind = "logout" => Family(n) \in disturbed'
      BY <1>2, <1>4, <2>2
    <3> QED
      BY <1>2, <3>1, <3>2, <3>3 DEF Quiet
  <2> QED
    BY <1>2, <2>1, <2>2
<1>8. Family(cookie)' = Family(n) /\ Live(cookie)' = Live(n)
  BY <1>2 DEF Family, Live
<1>9. JarHolds'
  <2>1. Family(n) \notin disturbed' => Live(n)
    BY <1>1, <1>2, <1>4 DEF Ledger, RefreshHolds
  <2> QED
    BY <1>8, <2>1 DEF JarHolds
<1>10. JarFresh'
  <2> SUFFICES ASSUME NEW c \in Calls, At(c, "login", "ok")', call'[c].issued \notin disturbed'
               PROVE  Family(cookie)' # call'[c].issued
    BY DEF JarFresh
  <2>1. c # f /\ c \notin Replayed(f)
    BY <1>2, <1>6, IdleFields DEF At
  <2>2. call'[c] = call[c] /\ At(c, "login", "ok") /\ call[c].issued \notin disturbed
    BY <1>2, <2>1 DEF At
  <2>3. Of(f) # call[c].issued
    BY <1>2, <1>4, <2>2 DEF Ledger, LoginsFresh
  <2> QED
    BY <1>4, <1>8, <2>2, <2>3
<1> QED
  BY <1>5, <1>7, <1>9, <1>10, QuietStep DEF JarKept, PageInv, PageTypes

(* A refresh goes on; it may have revoked tokens of its family. *)
LEMMA RefreshGoesOn ==
  ASSUME ServerInv, PageInv, Ledger, UNCHANGED <<cookie, disturbed>>,
         NEW c \in Calls, Refreshing(c), call[c].pc \in {"sent", "found"},
         NEW pc \in Steps, Becomes(c, pc),
         Issued' = Issued, \A n \in Known : Family(n)' = Family(n),
         \A n \in Issued :
           /\ tokens'[n].family = tokens[n].family
           /\ tokens[n].family # Of(c) => (Live(n)' <=> Live(n))
           /\ Live(n)' => Live(n),
         pc \in {"found", "rotating"} \/ Of(c) \in disturbed,
         Of(c) \notin disturbed /\ pc = "found" => Live(call[c].cookie)',
         Of(c) \notin disturbed /\ pc = "rotating" =>
           \A n \in Issued : tokens[n].family = Of(c) => ~Live(n)',
         pc = "rotating" \/ UNCHANGED tokens
  PROVE  Ledger'
<1>1. /\ call'[c].kind = call[c].kind /\ call'[c].pc = pc
      /\ call'[c].cookie = call[c].cookie /\ call'[c].issued = call[c].issued
      /\ \A d \in Calls : d # c => call'[d] = call[d]
  BY BecomesEffect
<1>2. ASSUME NEW d \in Calls
      PROVE  /\ call'[d].kind = call[d].kind /\ call'[d].cookie = call[d].cookie
             /\ call'[d].issued = call[d].issued
             /\ Of(d)' = Of(d) /\ (Refreshing(d)' <=> Refreshing(d))
             /\ At(d, "login", "ok")' <=> At(d, "login", "ok")
  <2>1. call[d].cookie \in Known
    BY HeldKnown
  <2>2. call'[d].kind = call[d].kind /\ call'[d].cookie = call[d].cookie
        /\ call'[d].issued = call[d].issued
    BY <1>1
  <2>4. Of(d)' = Of(d)
    BY <2>1, <2>2 DEF Of
  <2>5. At(d, "login", "ok")' <=> At(d, "login", "ok")
    BY <1>1 DEF At, Refreshing
  <2> QED
    BY <2>2, <2>4, <2>5 DEF Refreshing
<1>3. LogoutsDisturb'
  BY <1>2 DEF Ledger, LogoutsDisturb
<1>4. RefreshesAlone'
  BY <1>2 DEF Ledger, RefreshesAlone
<1>5. RefreshHolds'
  <2> SUFFICES ASSUME NEW d \in Calls, Refreshing(d), Of(d) \notin disturbed
               PROVE  /\ call'[d].pc # "reused"
                      /\ call'[d].pc \in {"sent", "found"} => ~tokens'[call'[d].cookie].revoked
                      /\ call'[d].pc = "rotating" =>
                           \A n \in Issued : tokens[n].family = Of(d) => ~Live(n)'
                      /\ call'[d].pc = "ok" => ~tokens'[call'[d].issued].revoked
    BY <1>2 DEF RefreshHolds, Live
  <2>1. CASE d = c
    BY <1>1, <2>1 DEF Live
  <2>2. CASE d # c
    <3>1. Of(d) # Of(c)
      BY <2>2 DEF Ledger, RefreshesAlone
    <3>2. /\ call[d].pc # "reused"
          /\ call[d].pc \in {"sent", "found"} => Live(call[d].cookie)
          /\ call[d].pc = "rotating" => \A n \in Issued : tokens[n].family = Of(d) => ~Live(n)
          /\ call[d].pc = "ok" => Live(call[d].issued)
      BY DEF Ledger, RefreshHolds
    <3>3. PICK k, m : k = call[d].cookie /\ m = call[d].issued
      OBVIOUS
    <3>4. /\ k \in Issued /\ tokens[k].family # Of(c)
          /\ call[d].pc = "ok" => m \in Issued /\ tokens[m].family # Of(c)
      BY <3>1, <3>3, HeldKnown DEF Of, Refreshing
    <3>5. (Live(k)' <=> Live(k)) /\ (call[d].pc = "ok" => (Live(m)' <=> Live(m)))
      BY <3>4
    <3>6. call'[d] = call[d]
      BY <1>1, <2>2
    <3> QED
      BY <3>1, <3>2, <3>3, <3>5, <3>6 DEF Live
  <2> QED
    BY <2>1, <2>2
<1>6. JarHolds'
  <2> SUFFICES ASSUME cookie # 0, Family(cookie)' \notin disturbed,
                      ~(\E d \in Calls : Replacing(d)' /\ Of(d)' = Family(cookie)')
               PROVE  Live(cookie)'
    BY DEF JarHolds, Live
  <2>1. PICK k : k = cookie
    OBVIOUS
  <2>2. k \in Known /\ k \in Issued
    BY <2>1, LenFacts DEF ServerInv, PageInv, PageTypes
  <2>3. Family(k)' = Family(k) /\ Family(cookie)' = Family(k)' /\ Live(cookie)' = Live(k)'
    BY <2>1, <2>2 DEF Family, Live
  <2>4. \A d \in Calls : Replacing(d) => Replacing(d)'
    BY <1>1, <1>2 DEF Replacing
  <2>5. Live(k)
    BY <1>2, <2>1, <2>3, <2>4 DEF Ledger, JarHolds
  <2>6. CASE pc = "rotating"
    <3>1. Family(k) # Of(c)
      BY <1>1, <1>2, <2>3, <2>6 DEF Replacing
    <3>2. tokens[k].family # Of(c)
      BY <2>2, <3>1, HeldKnown
    <3> QED
      BY <2>2, <2>3, <2>5, <3>2
  <2>7. CASE UNCHANGED tokens
    BY <2>3, <2>5, <2>7 DEF Live
  <2> QED
    BY <2>6, <2>7
<1>7. JarFresh'
  <2>1. PICK k : k = cookie
    OBVIOUS
  <2>2. k \in Known /\ Family(k)' = Family(k) /\ Family(cookie)' = Family(k)'
    BY <2>1 DEF PageInv, PageTypes, Family
  <2> QED
    BY <1>2, <2>1, <2>2 DEF Ledger, JarFresh
<1>8. LoginsFresh'
  <2> SUFFICES ASSUME NEW d \in Calls, At(d, "login", "ok"), call[d].issued \notin disturbed
               PROVE  ~tokens'[call[d].issued].revoked
    BY <1>2 DEF Ledger, LoginsFresh, Live
  <2>1. PICK m : m = call[d].issued
    OBVIOUS
  <2>2. m \in Issued /\ tokens[m].family = m
    BY <2>1, HeldKnown DEF At
  <2>3. Live(m) /\ Of(c) # m
    BY <2>1 DEF Ledger, LoginsFresh
  <2> QED
    BY <2>1, <2>2, <2>3 DEF Live
<1>9. OneLive'
  BY DEF Ledger, OneLive
<1> QED
  BY <1>3, <1>4, <1>5, <1>6, <1>7, <1>8, <1>9 DEF Ledger

LEMMA FindTokenLedger ==
  ASSUME ServerInv, ServerInv', PageInv, Ledger, UNCHANGED <<cookie, disturbed>>,
         NEW c \in Calls, FindToken(c)
  PROVE  Ledger'
<1>1. UNCHANGED tokens /\ At(c, "refresh", "sent")
  BY DEF FindToken
<1>2. CASE ~Usable(call[c].cookie)
  <2>1. Answers(c, "unauthorized") /\ ~Replacing(c)
    BY <1>1, <1>2 DEF FindToken, Replacing, At
  <2> QED
    BY <1>1, <2>1, AnswersQuiet DEF Answered
<1>3. CASE Usable(call[c].cookie)
  <2>1. PICK pc \in {"reused", "found"} :
          /\ pc = IF tokens[call[c].cookie].revoked THEN "reused" ELSE "found"
          /\ Becomes(c, pc)
    BY <1>3 DEF FindToken
  <2>2. Refreshing(c)
    BY <1>1, <1>3 DEF Refreshing, At, Usable
  <2>3. Of(c) \notin disturbed => Live(call[c].cookie)
    BY <1>1, <2>2 DEF Ledger, RefreshHolds, At
  <2>4. Of(c) \notin disturbed => pc = "found"
    BY <2>1, <2>3 DEF Live
  <2>5. Issued' = Issued /\ \A n : Family(n)' = Family(n) /\ Live(n)' = Live(n)
    BY <1>1 DEF Issued, Family, Live
  <2>6. pc \in Steps /\ pc # "rotating" /\ call[c].pc = "sent"
    BY <1>1, <2>1 DEF Steps, At
  <2>7. Of(c) \notin disturbed => Live(call[c].cookie)'
    <3>1. call'[c].cookie = call[c].cookie
      BY <2>1, <2>6, BecomesEffect
    <3> QED
      BY <1>1, <2>3, <3>1 DEF Live
  <2>8. \A n \in Issued :
           /\ tokens'[n].family = tokens[n].family
           /\ tokens[n].family # Of(c) => (Live(n)' <=> Live(n))
           /\ Live(n)' => Live(n)
    BY <1>1, <2>5
  <2> QED
    BY <1>1, <2>1, <2>2, <2>4, <2>5, <2>6, <2>7, <2>8, RefreshGoesOn
<1> QED
  BY <1>2, <1>3

LEMMA RevokeOldLedger ==
  ASSUME ServerInv, ServerInv', PageInv, Ledger, UNCHANGED <<cookie, disturbed>>,
         NEW c \in Calls, RevokeOld(c)
  PROVE  Ledger'
<1>1. call[c].cookie \in Issued /\ TokensOK
  BY RevokeOneInv DEF ServerInv
<1>2. PICK k \in Issued : k = call[c].cookie
  BY <1>1
<1>3. Becomes(c, "rotating") /\ At(c, "refresh", "found") /\ Usable(k) /\ Revokes(k)
  BY <1>2 DEF RevokeOld, Revokes
<1>4. Refreshing(c) /\ Of(c) = Family(k) /\ Family(k) = tokens[k].family
  BY <1>2, <1>3, HeldKnown DEF Refreshing, At, Usable, Of
<1>5. /\ Len(tokens') = Len(tokens) /\ tokens'[k].revoked
      /\ \A n \in Issued : tokens'[n].family = tokens[n].family
      /\ \A n \in Issued : tokens[n].revoked => tokens'[n].revoked
      /\ \A n \in Issued : n # k => tokens'[n] = tokens[n]
  BY <1>1, <1>3, RevokedOne
<1>6. \A n \in Known : n # 0 => n \in Issued
  BY <1>1, LenFacts
<1>7. Issued' = Issued /\ \A n \in Known : Family(n)' = Family(n)
  BY <1>5, <1>6 DEF Family, Issued
<1>8. \A n \in Issued :
        /\ tokens'[n].family = tokens[n].family
        /\ tokens[n].family # Of(c) => (Live(n)' <=> Live(n))
        /\ Live(n)' => Live(n)
  BY <1>4, <1>5 DEF Live
<1>9. Of(c) \notin disturbed => \A n \in Issued : tokens[n].family = Of(c) => ~Live(n)'
  <2> SUFFICES ASSUME Of(c) \notin disturbed, NEW n \in Issued, tokens[n].family = Of(c)
               PROVE  ~Live(n)'
    OBVIOUS
  <2>1. Live(k)
    BY <1>2, <1>3, <1>4 DEF Ledger, RefreshHolds, At
  <2>2. Live(n) => n = k
    BY <1>4, <2>1 DEF Ledger, OneLive
  <2> QED
    BY <1>5, <2>2 DEF Live
<1>10. "rotating" \in Steps /\ call[c].pc = "found"
  BY <1>3 DEF Steps, At
<1> QED
  BY <1>3, <1>4, <1>7, <1>8, <1>9, <1>10, RefreshGoesOn

(* A pair is issued, by a login or for the token of a refresh. *)
LEMMA IssueLedger ==
  ASSUME ServerInv, PageInv, Ledger, UNCHANGED <<cookie, disturbed>>,
         NEW c \in Calls, NEW family \in 1 .. Len(tokens) + 1, NEW parent \in Known,
         IssueTokens(c, family, parent),
         \/ call[c].kind = "login" /\ call[c].pc = "sent" /\ family = Len(tokens) + 1
         \/ Refreshing(c) /\ call[c].pc = "rotating" /\ family = Of(c)
  PROVE  Ledger'
<1>1. PICK n : n = Len(tokens) + 1
  OBVIOUS
<1>2. /\ n \in Nat /\ n \notin Known /\ Issued' = Issued \cup {n} /\ Known \subseteq Known'
      /\ tokens'[n].family = family /\ ~tokens'[n].revoked
      /\ \A m \in Issued : tokens'[m] = tokens[m]
      /\ \A m \in Known : Family(m)' = Family(m)
      /\ call'[c].kind = call[c].kind /\ call'[c].pc = "ok"
      /\ call'[c].cookie = call[c].cookie /\ call'[c].issued = n
      /\ \A d \in Calls : d # c => call'[d] = call[d]
  BY <1>1, IssueEffect
<1>3. \A m \in Issued : m \in Known /\ m # n /\ (Live(m)' <=> Live(m))
  BY <1>2, LenFacts DEF ServerInv, Live
<1>4. ASSUME NEW d \in Calls
      PROVE  /\ call'[d].kind = call[d].kind /\ call'[d].cookie = call[d].cookie
             /\ Of(d)' = Of(d) /\ (Refreshing(d)' <=> Refreshing(d))
  <2>1. call[d].cookie \in Known
    BY HeldKnown
  <2>2. call'[d].kind = call[d].kind /\ call'[d].cookie = call[d].cookie
    BY <1>2
  <2>3. Of(d)' = Of(d)
    BY <1>2, <2>1, <2>2 DEF Of
  <2> QED
    BY <2>2, <2>3 DEF Refreshing
<1>5. ASSUME NEW d \in Calls, Refreshing(d) PROVE Of(d) \in Issued /\ Of(d) # n
  BY <1>3, <1>5, HeldKnown DEF Of
<1>6. ASSUME NEW d \in Calls, At(d, "login", "ok")'
      PROVE  \/ d = c /\ call[c].kind = "login"
             \/ /\ d # c /\ At(d, "login", "ok") /\ call'[d] = call[d]
                /\ call[d].issued \in Issued /\ call[d].issued # n
  <2>1. CASE d = c
    BY <1>2, <1>6, <2>1 DEF At
  <2>2. CASE d # c
    <3>1. At(d, "login", "ok") /\ call'[d] = call[d]
      BY <1>2, <1>6, <2>2 DEF At
    <3> QED
      BY <1>3, <2>2, <3>1, HeldKnown DEF At
  <2> QED
    BY <2>1, <2>2
<1>7. LogoutsDisturb'
  BY <1>4 DEF Ledger, LogoutsDisturb
<1>8. RefreshesAlone'
  BY <1>4 DEF Ledger, RefreshesAlone
<1>9. RefreshHolds'
  <2> SUFFICES ASSUME NEW d \in Calls, Refreshing(d), Of(d) \notin disturbed
               PROVE  /\ call'[d].pc # "reused"
                      /\ call'[d].pc \in {"sent", "found"} => ~tokens'[call'[d].cookie].revoked
                      /\ call'[d].pc = "rotating" =>
                           \A m \in Issued' : tokens'[m].family = Of(d) => tokens'[m].revoked
                      /\ call'[d].pc = "ok" => ~tokens'[call'[d].issued].revoked
    BY <1>4 DEF RefreshHolds, Live
  <2>1. CASE d = c
    BY <1>2, <2>1
  <2>2. CASE d # c
    <3>1. call'[d] = call[d]
      BY <1>2, <2>2
    <3>2. /\ call[d].pc # "reused"
          /\ call[d].pc \in {"sent", "found"} => Live(call[d].cookie)
          /\ call[d].pc = "rotating" => \A m \in Issued : tokens[m].family = Of(d) => ~Live(m)
          /\ call[d].pc = "ok" => Live(call[d].issued)
      BY DEF Ledger, RefreshHolds
    <3>3. call[d].cookie \in Issued /\ (call[d].pc = "ok" => call[d].issued \in Issued)
      BY HeldKnown DEF Refreshing
    <3>4. family # Of(d)
      <4>1. CASE Refreshing(c) /\ family = Of(c)
        BY <2>2, <4>1 DEF Ledger, RefreshesAlone
      <4>2. CASE family = n
        BY <1>5, <4>2
      <4> QED
        BY <1>1, <4>1, <4>2
    <3>5. \A m \in Issued' : tokens'[m].family = Of(d) => m \in Issued
      BY <1>2, <3>4
    <3> QED
      BY <1>2, <3>1, <3>2, <3>3, <3>5 DEF Live
  <2> QED
    BY <2>1, <2>2
<1>10. PICK k : k = cookie
  OBVIOUS
<1>11. /\ k \in Known /\ Family(cookie)' = Family(k) /\ (k # 0 => k \in Issued)
       /\ (k # 0 => Family(k) \in Issued)
  <2>1. k \in Known /\ (k # 0 => k \in Issued)
    BY <1>10, LenFacts DEF PageInv, PageTypes, ServerInv
  <2>2. Family(cookie)' = Family(k)'
    BY <1>10 DEF Family
  <2> QED
    BY <1>2, <2>1, <2>2, HeldKnown
<1>12. JarHolds'
  <2> SUFFICES ASSUME k # 0, Family(k) \notin disturbed,
                      ~(\E d \in Calls : Replacing(d)' /\ Of(d)' = Family(k))
               PROVE  Live(k)'
    <3>1. Live(cookie)' = Live(k)'
      BY <1>10 DEF Live
    <3> QED
      BY <1>10, <1>11, <3>1 DEF JarHolds
  <2>1. \A d \in Calls : Replacing(d) => Replacing(d)'
    BY <1>2, <1>4 DEF Replacing
  <2>2. Live(k)
    BY <1>4, <1>10, <2>1 DEF Ledger, JarHolds
  <2> QED
    BY <1>3, <1>11, <2>2
<1>13. JarFresh'
  <2> SUFFICES ASSUME NEW d \in Calls, At(d, "login", "ok")', call'[d].issued \notin disturbed, k # 0
               PROVE  Family(k) # call'[d].issued
    BY <1>10, <1>11 DEF JarFresh
  <2>1. CASE d = c
    BY <1>2, <1>3, <1>11, <2>1
  <2>2. CASE d # c
    BY <1>6, <1>10, <2>2 DEF Ledger, JarFresh
  <2> QED
    BY <2>1, <2>2
<1>14. LoginsFresh'
  <2> SUFFICES ASSUME NEW d \in Calls, At(d, "login", "ok")', call'[d].issued \notin disturbed
               PROVE  /\ ~tokens'[call'[d].issued].revoked
                      /\ \A e \in Calls : Refreshing(e) => Of(e) # call'[d].issued
                      /\ \A e \in Calls :
                           At(e, "login", "ok")' /\ call'[e].issued = call'[d].issued => e = d
    BY <1>4 DEF LoginsFresh, Live
  <2>1. CASE d = c
    BY <1>2, <1>5, <1>6, <2>1
  <2>2. CASE d # c
    <3>1. /\ At(d, "login", "ok") /\ call'[d] = call[d]
          /\ call[d].issued \in Issued /\ call[d].issued # n
      BY <1>6, <2>2
    <3>2. /\ Live(call[d].issued)
          /\ \A e \in Calls : Refreshing(e) => Of(e) # call[d].issued
          /\ \A e \in Calls : At(e, "login", "ok") /\ call[e].issued = call[d].issued => e = d
      BY <3>1 DEF Ledger, LoginsFresh
    <3>3. ASSUME NEW e \in Calls, At(e, "login", "ok")', call'[e].issued = call[d].issued
          PROVE  e = d
      BY <1>2, <1>6, <3>1, <3>2, <3>3
    <3> QED
      BY <1>2, <3>1, <3>2, <3>3 DEF Live
  <2> QED
    BY <2>1, <2>2
<1>15. OneLive'
  <2> SUFFICES ASSUME NEW m \in Issued, tokens[m].family = family, family \notin disturbed, Live(m)
               PROVE  FALSE
    <3>1. \A m, l \in Issued : /\ tokens[m].family = tokens[l].family
                               /\ tokens[m].family \notin disturbed /\ Live(m) /\ Live(l)
                               => m = l
      BY DEF Ledger, OneLive
    <3> QED
      BY <1>2, <1>3, <3>1 DEF OneLive
  <2>1. CASE family = n
    BY <1>3, <2>1, HeldKnown
  <2>2. CASE Refreshing(c) /\ call[c].pc = "rotating" /\ family = Of(c)
    BY <2>2 DEF Ledger, RefreshHolds
  <2> QED
    BY <1>1, <2>1, <2>2
<1> QED
  BY <1>7, <1>8, <1>9, <1>12, <1>13, <1>14, <1>15 DEF Ledger

LEMMA IssuesLedger ==
  ASSUME ServerInv, PageInv, Ledger, UNCHANGED <<cookie, disturbed>>,
         NEW c \in Calls, Login(c) \/ IssueNext(c)
  PROVE  Ledger'
<1>1. CASE Login(c)
  <2>1. Len(tokens) + 1 \in 1 .. Len(tokens) + 1 /\ 0 \in Known
    BY LenFacts DEF ServerInv
  <2> QED
    BY <1>1, <2>1, IssueLedger DEF Login, At
<1>2. CASE IssueNext(c)
  <2>1. call[c].cookie \in Issued /\ Family(call[c].cookie) \in 1 .. Len(tokens) + 1
    BY <1>2, IssueNextInv
  <2>2. call[c].cookie \in Known /\ call[c].cookie # 0
    BY <2>1, LenFacts, HeldKnown DEF ServerInv
  <2>3. Refreshing(c) /\ call[c].pc = "rotating"
    BY <1>2, <2>2 DEF IssueNext, At, Refreshing
  <2> QED
    BY <1>2, <2>1, <2>2, <2>3, IssueLedger DEF IssueNext, Of
<1> QED
  BY <1>1, <1>2

LEMMA ServeLedger ==
  ASSUME ServerInv, ServerInv', PageInv, Ledger, NEW c \in Calls,
         Serve(c) \/ Fault(c) \/ RedisFault(c)
  PROVE  Ledger'
<1>1. CASE Fault(c)
  BY <1>1, FaultLedger
<1>2. CASE Serve(c) \/ RedisFault(c)
  <2>1. UNCHANGED <<cookie, disturbed>> /\ (ServerStep(c) \/ RefuseUnchecked(c))
    BY <1>2 DEF Serve, RedisFault, pageVars
  <2> QED
    BY <2>1, GatewayLedger, IssuesLedger, FindTokenLedger, RevokeFamilyLedger, RevokeOldLedger,
       RevokeOwnLedger DEF ServerStep
<1> QED
  BY <1>1, <1>2

LEMMA StartRefreshLedger ==
  ASSUME ServerInv, ServerInv', PageInv, Ledger, NEW r, NEW f \in Refreshes, StartRefresh(r, f)
  PROVE  Ledger'
<1>1. PICK t : t = page[r].tab
  OBVIOUS
<1>2. PICK k : k = cookie
  OBVIOUS
<1>3. /\ r \in Calls /\ f \in Calls /\ r # f /\ t \in Tabs /\ ~isRefreshing[t]
      /\ UNCHANGED <<tokens, revokedJti, cookie>>
      /\ call[f] = Idle /\ call'[r] = Idle
      /\ \A c \in Calls : c # r /\ c # f => call'[c] = call[c]
  BY <1>1, StartFacts
<1>4. call[r].pc = "unauthorized"
  BY DEF StartRefresh
<1>5. /\ disturbed \subseteq disturbed'
      /\ call'[f].kind = "refresh" /\ call'[f].cookie = k /\ call'[f].pc = "sent"
  BY <1>2, StartRefreshInv
<1>6. /\ Issued' = Issued /\ \A n : (Live(n)' <=> Live(n)) /\ Family(n)' = Family(n)
      /\ Family(cookie)' = Family(k) /\ Live(cookie)' = Live(k)
  BY <1>2, <1>3 DEF Issued, Live, Family
<1>7. k \in Known /\ (k # 0 => k \in Issued)
  BY <1>2, LenFacts DEF PageInv, PageTypes, ServerInv
<1>8. ASSUME NEW c \in Calls, c # f
      PROVE  /\ call'[c] = call[c] \/ call'[c] = Idle
             /\ Refreshing(c)' => Refreshing(c) /\ call'[c] = call[c] /\ Of(c)' = Of(c)
             /\ At(c, "login", "ok")' => At(c, "login", "ok") /\ call'[c] = call[c]
             /\ call'[c].kind = "logout" => call'[c] = call[c] /\ Of(c)' = Of(c)
             /\ Replacing(c) => Replacing(c)' /\ Of(c)' = Of(c)
  <2>1. call'[c] = call[c] \/ (call'[c] = Idle /\ c = r)
    BY <1>3, <1>8
  <2>2. call'[c] = call[c] => Of(c)' = Of(c)
    BY <1>6 DEF Of
  <2> QED
    BY <1>4, <2>1, <2>2, IdleFields DEF Refreshing, At, Replacing
<1>9. /\ Of(f)' = Family(k) /\ (Refreshing(f)' <=> k # 0) /\ ~At(f, "login", "ok")' /\ ~Replacing(f)
      /\ ~Refreshing(f)
  <2>1. Of(f)' = Family(k)
    BY <1>5, <1>6 DEF Of
  <2> QED
    BY <1>3, <1>5, <2>1, IdleFields DEF Refreshing, At, Replacing
(* The family of the cookie has no other refresh: one of this tab would    *)
(* have kept this one from starting, one of another tab disturbs it.       *)
<1>10. ASSUME NEW g \in Calls, Refreshing(g), Of(g) = Family(k)
       PROVE  Family(k) \in disturbed'
  <2>1. HoldsRight(g) /\ call[g].kind = "refresh" /\ call[g].cookie # 0
    BY <1>10 DEF ServerInv, Refreshing
  <2>2. g \in Refreshes
    BY <2>1 DEF HoldsRight, CallOK
  <2>3. CASE page[g] = NoPage
    BY <1>5, <1>10, <2>1, <2>2, <2>3 DEF PageInv, RefreshOK, Of
  <2>4. CASE page[g] # NoPage
    <3>1. isRefreshing[page[g].tab]
      BY <2>2, <2>4 DEF PageInv, RefreshOK
    <3>2. page[g].tab # t
      BY <1>3, <3>1
    <3>3. g \in {h \in Refreshes : ~Free(h) /\ page[h].tab # page[r].tab}
      BY <1>1, <2>2, <2>4, <3>2 DEF Free
    <3>4. Family(call[g].cookie) = Family(cookie) /\ Family(call[g].cookie) # 0
      BY <1>2, <1>10, HeldKnown DEF Of
    <3>5. Disturb({Family(cookie)} \cap {Family(call[h].cookie) :
                     h \in {h \in Refreshes : ~Free(h) /\ page[h].tab # page[r].tab}})
      BY DEF StartRefresh
    <3> QED
      BY <1>2, <3>3, <3>4, <3>5 DEF Disturb
  <2> QED
    BY <2>3, <2>4
<1>11. LogoutsDisturb'
  <2> SUFFICES ASSUME NEW c \in Calls, call'[c].kind = "logout", call'[c].cookie # 0
               PROVE  Of(c)' \in disturbed'
    BY DEF LogoutsDisturb
  <2>1. c # f
    BY <1>5
  <2> QED
    BY <1>5, <1>8, <2>1 DEF Ledger, LogoutsDisturb
<1>12. RefreshesAlone'
  <2> SUFFICES ASSUME NEW c \in Calls, NEW d \in Calls, Refreshing(c)', Refreshing(d)',
                      Of(c)' = Of(d)', Of(c)' \notin disturbed', c # d
               PROVE  FALSE
    BY DEF RefreshesAlone
  <2>1. CASE c # f /\ d # f
    BY <1>5, <1>8, <2>1 DEF Ledger, RefreshesAlone
  <2>2. CASE c = f
    BY <1>8, <1>9, <1>10, <2>2
  <2>3. CASE d = f
    BY <1>8, <1>9, <1>10, <2>3
  <2> QED
    BY <2>1, <2>2, <2>3
<1>13. RefreshHolds'
  <2> SUFFICES ASSUME NEW c \in Calls, Refreshing(c)', Of(c)' \notin disturbed'
               PROVE  /\ call'[c].pc # "reused"
                      /\ call'[c].pc \in {"sent", "found"} => ~tokens[call'[c].cookie].revoked
                      /\ call'[c].pc = "rotating" =>
                           \A n \in Issued : tokens[n].family = Of(c)' => ~Live(n)
                      /\ call'[c].pc = "ok" => ~tokens[call'[c].issued].revoked
    BY <1>3, <1>6 DEF RefreshHolds, Live
  <2>1. CASE c = f
    <3>1. k # 0 /\ Family(k) \notin disturbed' /\ Family(k) \notin disturbed
      BY <1>5, <1>9, <2>1
    <3>2. Live(k)
      BY <1>2, <1>10, <3>1 DEF Ledger, JarHolds, Replacing
    <3> QED
      BY <1>5, <2>1, <3>2 DEF Live
  <2>2. CASE c # f
    BY <1>5, <1>8, <2>2 DEF Ledger, RefreshHolds, Live
  <2> QED
    BY <2>1, <2>2
<1>14. JarHolds'
  <2>1. k # 0 /\ Family(k) \notin disturbed =>
          Live(k) \/ \E c \in Calls : Replacing(c) /\ Of(c) = Family(k)
    BY <1>2 DEF Ledger, JarHolds
  <2>2. \A c \in Calls : Replacing(c) => Replacing(c)' /\ Of(c)' = Of(c)
    BY <1>8, <1>9
  <2> QED
    BY <1>2, <1>3, <1>5, <1>6, <2>1, <2>2 DEF JarHolds
<1>15. JarFresh'
  <2> SUFFICES ASSUME NEW c \in Calls, At(c, "login", "ok")', call'[c].issued \notin disturbed', k # 0
               PROVE  Family(k) # call'[c].issued
    BY <1>2, <1>3, <1>6 DEF JarFresh
  <2>1. c # f
    BY <1>9
  <2> QED
    BY <1>2, <1>5, <1>8, <2>1 DEF Ledger, JarFresh
<1>16. LoginsFresh'
  <2> SUFFICES ASSUME NEW c \in Calls, At(c, "login", "ok")', call'[c].issued \notin disturbed'
               PROVE  /\ ~tokens[call'[c].issued].revoked
                      /\ \A d \in Calls : Refreshing(d)' => Of(d)' # call'[c].issued
                      /\ \A d \in Calls :
                           At(d, "login", "ok")' /\ call'[d].issued = call'[c].issued => d = c
    BY <1>3 DEF LoginsFresh, Live
  <2>1. c # f /\ call'[c] = call[c] /\ At(c, "login", "ok") /\ call[c].issued \notin disturbed
    BY <1>5, <1>8, <1>9
  <2>2. /\ Live(call[c].issued)
        /\ \A d \in Calls : Refreshing(d) => Of(d) # call[c].issued
        /\ \A d \in Calls : At(d, "login", "ok") /\ call[d].issued = call[c].issued => d = c
    BY <2>1 DEF Ledger, LoginsFresh
  <2>3. k # 0 => Family(k) # call[c].issued
    BY <1>2, <2>1 DEF Ledger, JarFresh
  <2>4. ASSUME NEW d \in Calls, Refreshing(d)' PROVE Of(d)' # call[c].issued
    BY <1>8, <1>9, <2>2, <2>3, <2>4
  <2>5. ASSUME NEW d \in Calls, At(d, "login", "ok")', call'[d].issued = call[c].issued
        PROVE  d = c
    BY <1>8, <1>9, <2>2, <2>5
  <2> QED
    BY <2>1, <2>2, <2>4, <2>5 DEF Live
<1>17. OneLive'
  BY <1>3, <1>5, <1>6 DEF Ledger, OneLive
<1> QED
  BY <1>11, <1>12, <1>13, <1>14, <1>15, <1>16, <1>17 DEF Ledger

-----------------------------------------------------------------------------
(* Every step of the system. *)
LEMMA LedgerInit == Init => Ledger
<1> SUFFICES ASSUME Init PROVE Ledger
  OBVIOUS
<1>1. /\ \A c \in Calls : call[c] = Idle
      /\ Len(tokens) = 0 /\ cookie = 0
  BY DEF Init, InitServer
<1>2. Issued = {}
  BY <1>1 DEF Issued
<1> QED
  BY <1>1, <1>2, IdleFields
  DEF Ledger, LogoutsDisturb, RefreshesAlone, RefreshHolds, JarHolds, JarFresh, LoginsFresh,
      OneLive, Refreshing, At

LEMMA StutterInv ==
  ASSUME IInv, UNCHANGED vars
  PROVE  IInv'
<1>1. UNCHANGED <<tokens, revokedJti, call, page, store, saved, cookie, isRefreshing, leaving,
                  disturbed>>
  BY DEF vars, serverVars, pageVars
<1>2. ServerInv'
  BY <1>1 DEF IInv, ServerInv, TokensOK, HoldsRight, CallOK, ReplacedIsRevoked, Issued, Known,
              Family, Usable
<1>3. PageInv'
  BY <1>1 DEF IInv, PageInv, PageTypes, RequestOK, RefreshOK, Known, Family
<1>4. FamiliesKept
  BY <1>1 DEF FamiliesKept, Issued, Known, Family, Live
<1> QED
  BY <1>1, <1>2, <1>3, <1>4, CallsStay DEF IInv

LEMMA NextInv ==
  ASSUME IInv, [Next]_vars
  PROVE  IInv'
<1> USE DEF IInv
<1>1. CASE UNCHANGED vars
  BY <1>1, StutterInv
<1>2. ASSUME NEW t \in Tabs, NEW r \in Requests, NEW kind \in {"data", "login", "logout"},
             Send(t, r, kind)
      PROVE  IInv'
  BY <1>2, SendInv, SendLedger
<1>3. ASSUME NEW c \in Calls, Serve(c) \/ Fault(c) \/ RedisFault(c) PROVE IInv'
  BY <1>3, ServeInv, ServeLedger
<1>4. ASSUME NEW c \in Calls, Deliver(c) PROVE IInv'
  <2>1. CASE Accept(c)
    BY <2>1, AcceptInv, AcceptLedger DEF Accept
  <2>2. CASE Enqueue(c)
    BY <2>2, EnqueueInv, RefusalLedger DEF Enqueue
  <2>3. CASE FinishRefresh(c)
    BY <2>3, FinishRefreshInv, FinishRefreshLedger DEF FinishRefresh
  <2>4. CASE Reject(c)
    BY <2>4, RejectInv, RefusalLedger
  <2>5. CASE Discard(c)
    BY <2>5, DiscardInv, RefusalLedger
  <2>6. ASSUME NEW f \in Refreshes, StartRefresh(c, f) PROVE IInv'
    BY <2>6, StartRefreshInv, StartRefreshLedger
  <2> QED
    BY <1>4, <2>1, <2>2, <2>3, <2>4, <2>5, <2>6 DEF Deliver
<1>5. ASSUME NEW c \in Calls, Cut(c) PROVE IInv'
  BY <1>5, CutInv, CutLedger
<1>6. ASSUME NEW t \in Tabs, Reload(t) PROVE IInv'
  BY <1>6, ReloadInv, ReloadLedger
<1>7. CASE TimePasses
  BY <1>7, TimePassesInv, TimePassesLedger
<1>8. CASE Rest
  BY <1>8, StutterInv DEF Rest
<1> QED
  BY <1>1, <1>2, <1>3, <1>4, <1>5, <1>6, <1>7, <1>8 DEF Next

THEOREM SessionInvariant == Spec => []IInv
<1>1. Init => IInv
  BY ServerAndPagesInit, LedgerInit DEF IInv
<1>2. IInv /\ [Next]_vars => IInv'
  BY NextInv
<1> QED
  BY <1>1, <1>2, PTL DEF Spec

-----------------------------------------------------------------------------
(* What the servers and the pages hold is of its type, and a call is always*)
(* in a state its handler can be in (auth.service.ts:53-174,               *)
(* users.routes.ts:22-40, client.ts:14-91).                                *)
THEOREM SessionTypes == Spec => [](ServerInv /\ PageInv)
<1>1. IInv => ServerInv /\ PageInv
  BY DEF IInv
<1> QED
  BY <1>1, SessionInvariant, PTL

(* The detection of reuse never strikes an honest browser, whatever the    *)
(* number of its tabs and requests (auth.service.ts:125-132 against        *)
(* client.ts:38-49).                                                       *)
THEOREM ReuseIsNeverFalse == Spec => []NoFalseReuse
<1>1. IInv => NoFalseReuse
  <2> SUFFICES ASSUME IInv, NEW f \in Refreshes, call[f].pc = "reused"
               PROVE  Family(call[f].cookie) \in disturbed
    BY DEF NoFalseReuse
  <2>1. HoldsRight(f) /\ f \in Calls
    BY CallFacts DEF IInv, ServerInv
  <2>2. call[f].kind = "refresh"
    BY <2>1 DEF HoldsRight, CallOK, CallRecords, Kinds
  <2>3. Refreshing(f)
    BY <2>1, <2>2 DEF HoldsRight, CallOK, Refreshing
  <2> QED
    BY <2>1, <2>3 DEF IInv, Ledger, RefreshHolds, Of
<1> QED
  BY <1>1, SessionInvariant, PTL

-----------------------------------------------------------------------------
(* Two tokens for one. *)

Passed(c) == call[c].kind = "refresh" /\ call[c].pc \in {"found", "rotating"}

(* What a refresh that passed the check finds of tokens its own was given  *)
(* for: they came after it was sent, and the family is disturbed.          *)
PassedBeside ==
  \A c \in Calls : Passed(c) =>
    \A n \in Issued : tokens[n].parent = call[c].cookie =>
      call[c].since < n /\ Of(c) \in disturbed

Forking == PassedBeside /\ ForkedOnlyAtOnce

(* A step that issues nothing, and after which no other refresh has passed *)
(* the check.                                                              *)
LEMMA ForkingKept ==
  ASSUME ServerInv, Forking, Issued' = Issued, disturbed \subseteq disturbed',
         \A n \in Issued : /\ tokens'[n].family = tokens[n].family
                           /\ tokens'[n].parent = tokens[n].parent
                           /\ tokens'[n].since = tokens[n].since,
         \A c \in Calls : Passed(c)' => /\ Passed(c)
                                        /\ call'[c].cookie = call[c].cookie
                                        /\ call'[c].since = call[c].since
  PROVE  Forking'
<1>1. ASSUME NEW c \in Calls, Passed(c)', NEW n \in Issued, tokens'[n].parent = call'[c].cookie
      PROVE  call'[c].since < n /\ Of(c)' \in disturbed'
  <2>1. PICK k : k = call[c].cookie
    OBVIOUS
  <2>2. Passed(c) /\ call'[c].cookie = k /\ call'[c].since = call[c].since
        /\ tokens[n].parent = k
    BY <1>1, <2>1
  <2>3. call[c].since < n /\ Family(k) \in disturbed
    BY <2>1, <2>2 DEF Forking, PassedBeside, Of
  <2>4. k \in Known /\ (k # 0 => k \in Issued)
    BY <2>1, HeldKnown, LenFacts DEF ServerInv
  <2>5. Of(c)' = Family(k)
    BY <2>2, <2>4 DEF Of, Family
  <2> QED
    BY <2>2, <2>3, <2>5
<1>2. PassedBeside'
  BY <1>1 DEF PassedBeside
<1>3. \A n, m \in Issued : Siblings(n, m)' => Siblings(n, m)
  BY DEF Siblings
<1>4. ForkedOnlyAtOnce'
  BY <1>3 DEF Forking, ForkedOnlyAtOnce
<1> QED
  BY <1>2, <1>4 DEF Forking

(* The check passes a token that is not revoked: none was given for it.    *)
LEMMA FindTokenForking ==
  ASSUME ServerInv, Forking, NEW c \in Calls, FindToken(c), disturbed \subseteq disturbed'
  PROVE  Forking'
<1>1. UNCHANGED tokens /\ At(c, "refresh", "sent")
  BY DEF FindToken
<1>2. Issued' = Issued
  BY <1>1 DEF Issued
<1>3. CASE ~(Usable(call[c].cookie) /\ ~tokens[call[c].cookie].revoked)
  <2>1. ~Passed(c)' /\ \A d \in Calls : d # c => call'[d] = call[d]
    <3>1. CASE Usable(call[c].cookie)
      <4>1. Becomes(c, "reused")
        BY <1>3, <3>1 DEF FindToken
      <4> QED
        BY <4>1, BecomesEffect DEF Passed, Steps
    <3>2. CASE ~Usable(call[c].cookie)
      <4>1. Answers(c, "unauthorized") /\ TokensOK'
        BY <1>1, <3>2 DEF FindToken, ServerInv, TokensOK, Issued
      <4> QED
        BY <4>1, AnswersEffect DEF Passed, Answered
    <3> QED
      BY <3>1, <3>2
  <2>2. \A d \in Calls : Passed(d)' => Passed(d) /\ call'[d] = call[d]
    BY <2>1 DEF Passed
  <2> QED
    BY <1>1, <1>2, <2>2, ForkingKept
<1>4. CASE Usable(call[c].cookie) /\ ~tokens[call[c].cookie].revoked
  <2>1. Becomes(c, "found")
    BY <1>4 DEF FindToken
  <2>2. /\ call'[c].kind = "refresh" /\ call'[c].cookie = call[c].cookie
        /\ \A d \in Calls : d # c => call'[d] = call[d]
    BY <1>1, <2>1, BecomesEffect DEF Steps, At
  <2>3. PICK k : k = call[c].cookie
    OBVIOUS
  <2>4. \A n \in Issued : tokens[n].parent # k
    BY <1>4, <2>3 DEF ServerInv, ReplacedIsRevoked, Usable
  <2>5. ASSUME NEW d \in Calls, Passed(d)', NEW n \in Issued, tokens[n].parent = call'[d].cookie
        PROVE  call'[d].since < n /\ Of(d)' \in disturbed'
    <3>1. d # c
      BY <2>2, <2>3, <2>4, <2>5
    <3>2. call'[d] = call[d] /\ Passed(d)
      BY <2>2, <2>5, <3>1 DEF Passed
    <3>3. call[d].since < n /\ Of(d) \in disturbed
      BY <2>5, <3>2 DEF Forking, PassedBeside
    <3>4. Of(d)' = Of(d)
      BY <1>1, <3>2 DEF Of, Family
    <3> QED
      BY <3>2, <3>3, <3>4
  <2>6. PassedBeside'
    BY <1>1, <1>2, <2>5 DEF PassedBeside
  <2>7. ForkedOnlyAtOnce'
    BY <1>1, <1>2 DEF Forking, ForkedOnlyAtOnce, Siblings
  <2> QED
    BY <2>6, <2>7 DEF Forking
<1> QED
  BY <1>3, <1>4

(* A login's token was given for none; a refresh's is as new as a token    *)
(* can be, and another refresh of the same token disturbs the family.      *)
LEMMA IssueForking ==
  ASSUME ServerInv, PageInv, Ledger, Forking, UNCHANGED disturbed,
         NEW c \in Calls, NEW family \in 1 .. Len(tokens) + 1, NEW parent \in Known,
         IssueTokens(c, family, parent),
         \/ call[c].kind = "login" /\ parent = 0
         \/ Passed(c) /\ Refreshing(c) /\ family = Of(c) /\ parent = call[c].cookie
  PROVE  Forking'
<1>1. PICK n : n = Len(tokens) + 1
  OBVIOUS
<1>2. /\ n \in Nat /\ n \notin Known /\ Issued' = Issued \cup {n}
      /\ tokens'[n].family = family /\ tokens'[n].parent = parent
      /\ tokens'[n].since = call[c].since
      /\ \A m \in Issued : tokens'[m] = tokens[m]
      /\ \A m \in Known : Family(m)' = Family(m)
      /\ call'[c].kind = call[c].kind /\ call'[c].pc = "ok"
      /\ \A d \in Calls : d # c => call'[d] = call[d]
  BY <1>1, IssueEffect
<1>3. \A k \in Known : k < n
  BY <1>1, LenFacts DEF Known, ServerInv
<1>4. \A m \in Issued : m \in Known /\ m < n /\ m # n
  BY <1>3, LenFacts DEF ServerInv, Issued
<1>5. ASSUME NEW d \in Calls, Passed(d)', NEW m \in Issued', tokens'[m].parent = call'[d].cookie
      PROVE  call'[d].since < m /\ Of(d)' \in disturbed
  <2>1. d # c /\ call'[d] = call[d] /\ Passed(d)
    BY <1>2, <1>5 DEF Passed
  <2>2. HoldsRight(d) /\ call[d].cookie \in Known /\ call[d].since \in Known
    BY DEF ServerInv, HoldsRight, CallOK
  <2>3. Of(d)' = Of(d)
    BY <1>2, <2>1, <2>2 DEF Of
  <2>4. Refreshing(d)
    BY <2>1, <2>2 DEF Passed, Refreshing, HoldsRight, CallOK
  <2>5. CASE m \in Issued
    BY <1>2, <1>5, <2>1, <2>3, <2>5 DEF Forking, PassedBeside
  <2>6. CASE m = n
    <3>1. parent = call[d].cookie /\ parent # 0
      BY <1>2, <1>5, <2>1, <2>4, <2>6 DEF Refreshing
    <3>2. Refreshing(c) /\ call[c].cookie = call[d].cookie
      BY <3>1
    <3>3. Of(c) = Of(d)
      BY <3>2 DEF Of
    <3>4. Of(d) \in disturbed
      BY <2>1, <2>4, <3>2, <3>3 DEF Ledger, RefreshesAlone
    <3> QED
      BY <1>3, <2>1, <2>2, <2>3, <2>6, <3>4
  <2> QED
    BY <1>2, <2>5, <2>6
<1>6. PassedBeside'
  BY <1>5 DEF PassedBeside
<1>7. ASSUME NEW l \in Issued', NEW m \in Issued', Siblings(l, m)'
      PROVE  tokens'[m].since < l /\ tokens'[m].family \in disturbed
  <2>1. l \in Issued /\ l < m
    <3>1. l < m /\ m \in Issued \cup {n} /\ l \in Issued \cup {n}
      BY <1>2, <1>7 DEF Siblings
    <3>2. l # n
      <4>1. m \in Issued => m < n
        BY <1>4
      <4>2. m \in Nat
        BY <1>2, <1>4, <3>1 DEF Issued
      <4> QED
        BY <1>2, <3>1, <4>1, <4>2
    <3> QED
      BY <3>1, <3>2
  <2>2. CASE m \in Issued
    BY <1>2, <1>7, <2>1, <2>2 DEF Forking, ForkedOnlyAtOnce, Siblings
  <2>3. CASE m = n
    <3>1. parent # 0 /\ tokens[l].parent = parent
      BY <1>2, <1>7, <2>1, <2>3 DEF Siblings
    <3>2. Passed(c) /\ tokens[l].parent = call[c].cookie /\ family = Of(c)
      BY <3>1
    <3> QED
      BY <1>2, <2>1, <2>3, <3>2 DEF Forking, PassedBeside
  <2> QED
    BY <1>2, <2>2, <2>3
<1>8. ForkedOnlyAtOnce'
  BY <1>7 DEF ForkedOnlyAtOnce
<1> QED
  BY <1>6, <1>8 DEF Forking

LEMMA ServerForking ==
  ASSUME ServerInv, PageInv, Ledger, Forking, disturbed \subseteq disturbed',
         NEW c \in Calls,
         (ServerStep(c) /\ UNCHANGED disturbed) \/ Fail(c) \/ RefuseUnchecked(c)
  PROVE  Forking'
<1>1. TokensGrow /\ TokensOK'
  BY ServerStepsInv DEF TokensGrow
<1>2. \A n \in Issued : /\ tokens'[n].family = tokens[n].family
                        /\ tokens'[n].parent = tokens[n].parent
                        /\ tokens'[n].since = tokens[n].since
  BY <1>1 DEF TokensGrow
<1>3. CASE Refuse(c) \/ BadCredentials(c) \/ ExpiredMeanwhile(c) \/ Fail(c) \/ RefuseUnchecked(c)
           \/ RevokeFamily(c) \/ (Admit(c) /\ call[c].kind = "data")
  <2>1. PICK pc \in Answered : Answers(c, pc)
    BY <1>3 DEF Refuse, BadCredentials, ExpiredMeanwhile, Fail, RefuseUnchecked, RevokeFamily,
                Admit, Answered
  <2>2. Issued' = Issued
    <3>1. CASE RevokeFamily(c)
      BY <3>1, RevokeFamilyEffect DEF Issued
    <3>2. CASE ~RevokeFamily(c)
      BY <1>3, <3>2 DEF Refuse, BadCredentials, ExpiredMeanwhile, Fail, RefuseUnchecked, Admit, Issued
    <3> QED
      BY <3>1, <3>2
  <2>3. call'[c].kind = "none" /\ \A d \in Calls : d # c => call'[d] = call[d]
    BY <1>1, <2>1, AnswersEffect
  <2>4. \A d \in Calls : Passed(d)' => Passed(d) /\ call'[d] = call[d]
    BY <2>3 DEF Passed
  <2> QED
    BY <1>2, <2>2, <2>4, ForkingKept
<1>4. CASE RevokeAccessToken(c) \/ ScanForLogout(c) \/ FinishLogout(c) \/ RevokeOwn(c) \/ RevokeOld(c)
           \/ (Admit(c) /\ call[c].kind = "logout")
  <2>1. PICK pc \in Steps : Becomes(c, pc)
    BY <1>4 DEF RevokeAccessToken, ScanForLogout, FinishLogout, RevokeOwn, RevokeOld, Admit, Steps
  <2>2. Issued' = Issued
    <3>1. CASE RevokeOwn(c) \/ RevokeOld(c)
      <4>1. PICK k \in Issued : k = call[c].cookie
        BY <3>1, RevokeOneInv
      <4>2. Revokes(k) /\ TokensOK
        BY <3>1, <4>1 DEF RevokeOwn, RevokeOld, Revokes, ServerInv
      <4> QED
        BY <4>2, RevokedOne DEF Issued
    <3>2. CASE ~(RevokeOwn(c) \/ RevokeOld(c))
      BY <1>4, <3>2 DEF RevokeAccessToken, ScanForLogout, FinishLogout, Admit, Issued
    <3> QED
      BY <3>1, <3>2
  <2>3. /\ call'[c].kind = call[c].kind /\ call'[c].cookie = call[c].cookie
        /\ call'[c].since = call[c].since
        /\ \A d \in Calls : d # c => call'[d] = call[d]
    BY <2>1, BecomesEffect
  <2>4. call[c].kind = "refresh" => Passed(c)
    BY <1>4 DEF RevokeAccessToken, ScanForLogout, FinishLogout, RevokeOwn, RevokeOld, At, Passed
  <2>5. \A d \in Calls : Passed(d)' => /\ Passed(d)
                                       /\ call'[d].cookie = call[d].cookie
                                       /\ call'[d].since = call[d].since
    BY <2>3, <2>4 DEF Passed
  <2> QED
    BY <1>2, <2>2, <2>5, ForkingKept
<1>5. CASE FindToken(c)
  BY <1>5, FindTokenForking
<1>6. CASE Login(c) /\ UNCHANGED disturbed
  <2>1. Len(tokens) + 1 \in 1 .. Len(tokens) + 1 /\ 0 \in Known
    BY LenFacts DEF ServerInv
  <2> QED
    BY <1>6, <2>1, IssueForking DEF Login, At
<1>7. CASE IssueNext(c) /\ UNCHANGED disturbed
  <2>1. call[c].cookie \in Issued /\ Family(call[c].cookie) \in 1 .. Len(tokens) + 1
    BY <1>7, IssueNextInv
  <2>2. call[c].cookie \in Known /\ call[c].cookie # 0
    BY <2>1, LenFacts, HeldKnown DEF ServerInv
  <2>3. Passed(c) /\ Refreshing(c)
    BY <1>7, <2>2 DEF IssueNext, At, Refreshing, Passed
  <2> QED
    BY <1>7, <2>1, <2>2, <2>3, IssueForking DEF IssueNext, Of
<1> QED
  BY <1>3, <1>4, <1>5, <1>6, <1>7 DEF ServerStep, Admit, Protected

(* The pages send calls and take answers. *)
LEMMA PagesForking ==
  ASSUME ServerInv, Forking, UNCHANGED tokens, disturbed \subseteq disturbed',
         \A c \in Calls : call'[c] = call[c] \/ call'[c].pc \in {"idle", "sent"}
  PROVE  Forking'
<1>1. Issued' = Issued
  BY DEF Issued
<1>2. \A c \in Calls : Passed(c)' => Passed(c) /\ call'[c] = call[c]
  BY DEF Passed
<1> QED
  BY <1>1, <1>2, ForkingKept

LEMMA ForkingStep ==
  ASSUME IInv, Forking, [Next]_vars
  PROVE  Forking'
<1> USE DEF IInv
<1>1. CASE UNCHANGED vars
  BY <1>1, PagesForking DEF vars, serverVars, pageVars
<1>2. ASSUME NEW t \in Tabs, NEW r \in Requests, NEW kind \in {"data", "login", "logout"},
             Send(t, r, kind)
      PROVE  Forking'
  <2>1. store[t] \in Nat /\ cookie \in Nat /\ kind \in Kinds
    BY DEF PageInv, PageTypes, Known, Kinds
  <2>2. Sent(kind, store[t], cookie).pc = "sent"
    BY <2>1, SentFields
  <2> QED
    BY <1>2, <2>2, SendFacts, PagesForking
<1>3. ASSUME NEW c \in Calls, Serve(c) \/ Fault(c) \/ RedisFault(c) PROVE Forking'
  BY <1>3, ServerForking DEF Serve, Fault, RedisFault, pageVars, Disturb
<1>4. ASSUME NEW c \in Calls, Deliver(c) PROVE Forking'
  <2>1. ASSUME UNCHANGED <<tokens, disturbed>>, call' = [call EXCEPT ![c] = Idle] PROVE Forking'
    <3>1. \A d \in Calls : call'[d] = call[d] \/ call'[d] = Idle
      BY <2>1 DEF ServerInv
    <3> QED
      BY <2>1, <3>1, IdleFields, PagesForking
  <2>2. CASE Accept(c) \/ Enqueue(c) \/ Reject(c) \/ Discard(c)
    BY <2>1, <2>2 DEF Accept, Enqueue, Reject, Discard, pageVars
  <2>3. CASE FinishRefresh(c)
    <3>1. PICK n : n = call[c].issued
      OBVIOUS
    <3>2. c \in Refreshes
      BY <2>3 DEF FinishRefresh
    <3>3. /\ n \in Known /\ UNCHANGED tokens /\ call'[c] = Idle
          /\ \A r \in Replayed(c) : /\ page[r].kind \in {"data", "login", "logout"}
                                    /\ call'[r] = Sent(page[r].kind, n, n)
          /\ \A d \in Calls : d # c /\ d \notin Replayed(c) => call'[d] = call[d]
          /\ disturbed \subseteq disturbed'
      BY <2>3, <3>1, <3>2, FinishFacts
    <3>4. ASSUME NEW r \in Replayed(c) PROVE call'[r].pc = "sent"
      <4>1. page[r].kind \in Kinds /\ n \in Nat
        BY <3>3 DEF Kinds, Known
      <4> QED
        BY <3>3, <4>1, SentFields
    <3> QED
      BY <3>3, <3>4, IdleFields, PagesForking
  <2>4. ASSUME NEW f \in Refreshes, StartRefresh(c, f) PROVE Forking'
    <3>1. cookie \in Nat /\ "refresh" \in Kinds
      BY DEF PageInv, PageTypes, Known, Kinds
    <3>2. Sent("refresh", 0, cookie).pc = "sent"
      BY <3>1, SentFields
    <3>3. /\ UNCHANGED tokens /\ call'[c] = Idle /\ call'[f] = Sent("refresh", 0, cookie)
          /\ \A d \in Calls : d # c /\ d # f => call'[d] = call[d]
      BY <2>4, StartFacts
    <3>4. disturbed \subseteq disturbed'
      BY <2>4, StartRefreshInv
    <3> QED
      BY <3>2, <3>3, <3>4, IdleFields, PagesForking
  <2> QED
    BY <1>4, <2>2, <2>3, <2>4 DEF Deliver
<1>5. ASSUME NEW c \in Calls, Cut(c) PROVE Forking'
  BY <1>5, PagesForking DEF Cut, Disturb, serverVars
<1>6. ASSUME NEW t \in Tabs, Reload(t) PROVE Forking'
  BY <1>6, PagesForking DEF Reload, Disturb, serverVars
<1>7. CASE TimePasses
  <2>1. PICK m \in Issued : Expire(m) /\ UNCHANGED pageVars
    BY <1>7 DEF TimePasses
  <2>2. Issued' = Issued /\ UNCHANGED <<call, disturbed>>
    BY <2>1, ExpireEffect DEF Issued, pageVars
  <2> QED
    BY <2>1, <2>2, ExpireEffect, ForkingKept DEF Passed
<1>8. CASE Rest
  BY <1>8, PagesForking DEF Rest, vars, serverVars, pageVars
<1> QED
  BY <1>1, <1>2, <1>3, <1>4, <1>5, <1>6, <1>7, <1>8 DEF Next

LEMMA ForkingInit == Init => Forking
<1> SUFFICES ASSUME Init PROVE Forking
  OBVIOUS
<1>1. Issued = {}
  BY DEF Init, InitServer, Issued
<1> QED
  BY <1>1 DEF Forking, PassedBeside, ForkedOnlyAtOnce

(* The live tokens of a family are counted against its forks.  A live      *)
(* token has been replaced by none; each token that has been replaced has  *)
(* one first among those given for it; and a token is the family's first,  *)
(* such a first, or a fork.                                                *)
LEMMA LiveTokensCounted ==
  ASSUME ServerInv, NEW family \in Issued
  PROVE  Cardinality(LiveTokens(family)) <= 1 + Cardinality(Forks(family))
<1> DEFINE members == {n \in Issued : tokens[n].family = family}
           live == LiveTokens(family)
           forks == Forks(family)
           replaced == {tokens[n].parent : n \in {m \in members : tokens[m].parent # 0}}
           first == {m \in members : tokens[m].parent # 0 /\ m \notin forks}
<1>1. Issued = 1 .. Len(tokens) /\ Len(tokens) \in Nat
  BY LenFacts DEF ServerInv
<1>2. ASSUME NEW n \in Issued, tokens[n].parent # 0
      PROVE  /\ tokens[n].parent \in Issued /\ tokens[tokens[n].parent].revoked
             /\ tokens[n].family = tokens[tokens[n].parent].family
  <2>1. tokens[n].parent \in 0 .. n - 1
    BY DEF ServerInv, TokensOK
  <2>2. tokens[n].parent \in Issued
    BY <1>1, <1>2, <2>1
  <2> QED
    BY <1>2, <2>2 DEF ServerInv, ReplacedIsRevoked
<1>3. live \subseteq members /\ replaced \subseteq members /\ live \cap replaced = {}
  BY <1>2 DEF LiveTokens
<1>4. members \subseteq {family} \cup first \cup forks
  <2>1. \A n \in members : tokens[n].parent = 0 => n = family
    BY DEF ServerInv, ReplacedIsRevoked
  <2> QED
    BY <2>1
<1>5. IsFiniteSet(Issued)
  BY <1>1, FS_Interval
<1>6. /\ IsFiniteSet(members) /\ IsFiniteSet(live) /\ IsFiniteSet(replaced)
      /\ IsFiniteSet(first) /\ IsFiniteSet(forks)
  <2>1. members \subseteq Issued /\ first \subseteq Issued /\ forks \subseteq Issued
    BY DEF Forks
  <2> HIDE DEF members, first, forks, live, replaced
  <2>2. live \subseteq Issued /\ replaced \subseteq Issued
    BY <1>3, <2>1
  <2> QED
    BY <1>5, <2>1, <2>2, FS_Subset
<1>7. Cardinality(first) <= Cardinality(replaced)
  <2> DEFINE given == [n \in first |-> tokens[n].parent]
  <2>1. given \in [first -> replaced]
    OBVIOUS
  <2>2. ASSUME NEW n \in first, NEW m \in first, tokens[n].parent = tokens[m].parent
        PROVE  n = m
    <3>1. n \in Issued /\ m \in Issued /\ n \notin forks /\ m \notin forks
          /\ tokens[n].family = family /\ tokens[m].family = family
          /\ tokens[n].parent # 0 /\ tokens[m].parent # 0
      OBVIOUS
    <3>2. ~(n < m) /\ ~(m < n)
      BY <2>2, <3>1 DEF Forks, Siblings
    <3> QED
      BY <1>1, <3>1, <3>2
  <2>3. given \in Injection(first, replaced)
    BY <2>1, <2>2 DEF Injection, IsInjective
  <2> HIDE DEF given, first, replaced
  <2> QED
    BY <1>6, <2>3, FS_Injection
<1> HIDE DEF members, live, forks, replaced, first
<1>8. /\ Cardinality(members) \in Nat /\ Cardinality(live) \in Nat /\ Cardinality(replaced) \in Nat
      /\ Cardinality(first) \in Nat /\ Cardinality(forks) \in Nat
  BY <1>6, FS_CardinalityType
<1>9. Cardinality(live) + Cardinality(replaced) <= Cardinality(members)
  <2>1. /\ IsFiniteSet(live \cup replaced)
        /\ Cardinality(live \cup replaced) =
             Cardinality(live) + Cardinality(replaced) - Cardinality(live \cap replaced)
    BY <1>6, FS_Union
  <2>2. Cardinality(live \cap replaced) = 0
    BY <1>3, FS_EmptySet
  <2>3. live \cup replaced \in SUBSET members
    BY <1>3
  <2>4. Cardinality(live \cup replaced) <= Cardinality(members)
    BY <1>6, <2>3, FS_Subset
  <2> QED
    BY <1>8, <2>1, <2>2, <2>4
<1>10. Cardinality(members) <= 1 + Cardinality(first) + Cardinality(forks)
  <2>1. /\ IsFiniteSet(first \cup forks)
        /\ Cardinality(first \cup forks) =
             Cardinality(first) + Cardinality(forks) - Cardinality(first \cap forks)
    BY <1>6, FS_Union
  <2>2. Cardinality(first \cap forks) \in Nat
    BY <1>6, FS_Intersection, FS_CardinalityType
  <2>3. PICK kin : kin = first \cup forks
    OBVIOUS
  <2>4. IsFiniteSet(kin) /\ Cardinality(kin) <= Cardinality(first) + Cardinality(forks)
        /\ Cardinality(kin) \in Nat
    BY <1>8, <2>1, <2>2, <2>3, FS_CardinalityType
  <2>5. IsFiniteSet(kin \cup {family}) /\ Cardinality(kin \cup {family}) <= Cardinality(kin) + 1
    BY <2>4, FS_AddElement
  <2>6. members \in SUBSET (kin \cup {family})
    BY <1>4, <2>3
  <2>7. Cardinality(members) <= Cardinality(kin \cup {family}) /\ Cardinality(kin \cup {family}) \in Nat
    BY <2>5, <2>6, FS_Subset, FS_CardinalityType
  <2> QED
    BY <1>8, <2>4, <2>5, <2>7
<1>11. Cardinality(live) <= 1 + Cardinality(forks)
  BY <1>7, <1>8, <1>9, <1>10
<1> QED
  BY <1>11 DEF live, forks

(* The live tokens of a session, of any, however refreshes overlap, are    *)
(* lost or fail: one, and one more for each refresh that passed the check  *)
(* beside another of the same token, sent before that one had its answer   *)
(* (auth.service.ts:108-149, client.ts:38-49).                             *)
THEOREM LiveTokensAreAccounted == Spec => []LiveTokensAccounted
<1>1. IInv /\ Forking /\ [Next]_vars => Forking'
  BY ForkingStep
<1>2. Spec => []Forking
  BY <1>1, ForkingInit, SessionInvariant, PTL DEF Spec
<1>3. IInv /\ Forking => LiveTokensAccounted
  <2>1. IInv => OneLiveTokenAndForks
    BY LiveTokensCounted DEF IInv, OneLiveTokenAndForks
  <2>2. IInv => ReplacedIsRevoked
    BY DEF IInv, ServerInv
  <2> QED
    BY <2>1, <2>2 DEF Forking, LiveTokensAccounted
<1> QED
  BY <1>2, <1>3, SessionInvariant, PTL

(* When logout has answered, neither the access token nor the refresh      *)
(* token it came with works, whatever refresh, logout or failure ran       *)
(* beside it (auth.service.ts:152-172, users.routes.ts:22-40).             *)
THEOREM LogoutLeavesNoToken == Spec => []LogoutRevokes
<1>1. IInv => LogoutRevokes
  <2> SUFFICES ASSUME IInv, NEW r \in Requests, At(r, "logout", "ok")
               PROVE  /\ ~AccessValid(call[r].jti)
                      /\ Usable(call[r].cookie) => tokens[call[r].cookie].revoked
    BY DEF LogoutRevokes
  <2>1. HoldsRight(r)
    BY CallFacts DEF IInv, ServerInv
  <2> QED
    BY <2>1 DEF HoldsRight, CallOK, At, AccessValid
<1> QED
  BY <1>1, SessionInvariant, PTL
=============================================================================
