------------------------------- MODULE SignIn -------------------------------
(***************************************************************************)
(* Accounts, codes and sessions: auth/otp.ts and auth/service.ts.  Every   *)
(* request reads first and writes later, and requests overlap.  An account *)
(* is known by its email; a code by an id that stands for its hash; a guess*)
(* is a code somebody was sent, or none of them.  Cooldowns, the daily cap,*)
(* expiry and wrong passwords only refuse: where the clock or the password *)
(* decides, the request may or may not go on.                              *)
(***************************************************************************)
EXTENDS Integers, FiniteSets

CONSTANTS
  Emails, Phones,
  Codes,        \* codes ever sent
  Requests,     \* requests under way
  Sessions, ResetLinks,
  MaxAttempts,  \* env.otp.maxAttempts
  NoOne, NoCode

VARIABLES
  user,         \* user[e]: User, or NoOne
  otp,          \* otp[p]: OtpCode of the phone, or NoCode
  sent,         \* codes that were sent
  compared,     \* history: compared[k], guesses compared with code k
  uses,         \* history: uses[k], requests code k let through
  session,      \* session[s]: its user, or NoOne when free or revoked
  link,         \* link[t]: PasswordResetToken, or NoCode
  request

signInVars == <<user, otp, sent, compared, uses, session, link, request>>

Done == [pc |-> "done"]

UserRow == [phone : Phones \cup {NoCode}, verified : BOOLEAN]
OtpRow == [code : Codes, attempts : Nat]
LinkRow == [email : Emails, used : BOOLEAN]

Init ==
  /\ user = [e \in Emails |-> NoOne]
  /\ otp = [p \in Phones |-> NoCode]
  /\ sent = {}
  /\ compared = [k \in Codes |-> 0]
  /\ uses = [k \in Codes |-> 0]
  /\ session = [s \in Sessions |-> NoOne]
  /\ link = [t \in ResetLinks |-> NoCode]
  /\ request = [r \in Requests |-> Done]

Known == {e \in Emails : user[e] # NoOne}
OwnerOf(p) == {e \in Known : user[e].phone = p}

Proceeds(r, to) == request' = [request EXCEPT ![r] = to]
Ends(r) == Proceeds(r, Done)

codeVars == <<otp, sent, compared, uses>>

-----------------------------------------------------------------------------
(* issueOtp: one row per phone, overwritten by the next code.              *)
IssueRead(r) ==
  /\ request[r].pc = "issue"
  /\ \/ Proceeds(r, [pc |-> "send", phone |-> request[r].phone, found |-> otp[request[r].phone] # NoCode])
     \/ otp[request[r].phone] # NoCode /\ Ends(r)
  /\ UNCHANGED <<user, codeVars, session, link>>

(* The update fails if the row is gone, the insert if there is one.        *)
Send(r) ==
  LET p == request[r].phone IN
  /\ request[r].pc = "send"
  /\ Ends(r)
  /\ IF request[r].found = (otp[p] # NoCode)
     THEN \E k \in Codes \ sent :
            /\ otp' = [otp EXCEPT ![p] = [code |-> k, attempts |-> 0]]
            /\ sent' = sent \cup {k}
     ELSE UNCHANGED <<otp, sent>>
  /\ UNCHANGED <<user, compared, uses, session, link>>

(* verifyOtp and consumeOtp: the user of the phone, the code of the phone. *)
Enter(r, p, guess) ==
  /\ request[r] = Done
  /\ \E e \in OwnerOf(p) :
       Proceeds(r, [pc |-> "readCode", phone |-> p, guess |-> guess, email |-> e, verified |-> user[e].verified])
  /\ UNCHANGED <<user, codeVars, session, link>>

ReadCode(r) ==
  LET p == request[r].phone IN
  /\ request[r].pc = "readCode"
  /\ \/ Ends(r)
     \/ /\ otp[p] # NoCode
        /\ Proceeds(r, [pc |-> "claim", phone |-> p, guess |-> request[r].guess, email |-> request[r].email,
                        verified |-> request[r].verified, code |-> otp[p].code])
  /\ UNCHANGED <<user, codeVars, session, link>>

(* Mutant of Claimable: an attempt of whatever code the row holds now.     *)
ClaimableAnyCode(r) ==
  otp[request[r].phone] # NoCode /\ otp[request[r].phone].attempts < MaxAttempts

(* The attempt is claimed on the row of the code that was read.            *)
Claimable(r) ==
  /\ otp[request[r].phone] # NoCode
  /\ otp[request[r].phone].code = request[r].code
  /\ otp[request[r].phone].attempts < MaxAttempts

ClaimAndCompare(r) ==
  LET k == request[r].code IN
  /\ request[r].pc = "claim"
  /\ IF Claimable(r)
     THEN /\ otp' = [otp EXCEPT ![request[r].phone].attempts = @ + 1]
          /\ compared' = [compared EXCEPT ![k] = @ + 1]
          /\ IF request[r].guess = k THEN Proceeds(r, [request[r] EXCEPT !.pc = "consume"]) ELSE Ends(r)
     ELSE Ends(r) /\ UNCHANGED <<otp, compared>>
  /\ UNCHANGED <<user, sent, uses, session, link>>

(* Mutant of Consumable: the row is deleted whatever code it holds.        *)
ConsumableAnyCode(r) == otp[request[r].phone] # NoCode

Consumable(r) ==
  LET row == otp[request[r].phone] IN row # NoCode /\ row.code = request[r].code

Consume(r) ==
  LET p == request[r].phone
      k == request[r].code
  IN /\ request[r].pc = "consume"
     /\ IF Consumable(r)
        THEN /\ uses' = [uses EXCEPT ![k] = @ + 1]
             /\ otp' = [otp EXCEPT ![p] = NoCode]
             /\ Proceeds(r, [pc |-> "verify", email |-> request[r].email, verified |-> request[r].verified])
        ELSE Ends(r) /\ UNCHANGED <<otp, uses>>
     /\ UNCHANGED <<user, sent, compared, session, link>>

Verify(r) ==
  LET e == request[r].email IN
  /\ request[r].pc = "verify"
  /\ user' = IF request[r].verified THEN user ELSE [user EXCEPT ![e].verified = TRUE]
  /\ Proceeds(r, [pc |-> "session", email |-> e])
  /\ UNCHANGED <<codeVars, session, link>>

StartSession(r) ==
  /\ request[r].pc = "session"
  /\ \E s \in Sessions : session[s] = NoOne /\ session' = [session EXCEPT ![s] = request[r].email]
  /\ Ends(r)
  /\ UNCHANGED <<user, codeVars, link>>

-----------------------------------------------------------------------------
(* signUp: a verified email or phone is taken; an unverified account of    *)
(* another email gives the phone up; then the details are written and a    *)
(* code is sent.                                                           *)
SignUpRead(r, e, p) ==
  /\ request[r] = Done
  /\ e \in Known => ~user[e].verified
  /\ \A o \in OwnerOf(p) \ {e} : ~user[o].verified
  /\ Proceeds(r, [pc |-> "free", email |-> e, phone |-> p, exists |-> e \in Known, holders |-> OwnerOf(p) \ {e}])
  /\ UNCHANGED <<user, codeVars, session, link>>

FreePhone(r) ==
  /\ request[r].pc = "free"
  /\ user' = [e \in Emails |-> IF e \in request[r].holders THEN [user[e] EXCEPT !.phone = NoCode] ELSE user[e]]
  /\ Proceeds(r, [request[r] EXCEPT !.pc = "write"])
  /\ UNCHANGED <<codeVars, session, link>>

(* Email and phone are unique.                                             *)
SignUpWrite(r) ==
  LET e == request[r].email
      p == request[r].phone
      clash == OwnerOf(p) \ {e} # {} \/ (~request[r].exists /\ e \in Known)
  IN /\ request[r].pc = "write"
     /\ IF clash
        THEN Ends(r) /\ UNCHANGED user
        ELSE /\ user' = [user EXCEPT ![e] = [phone |-> p, verified |-> e \in Known /\ user[e].verified]]
             /\ Proceeds(r, [pc |-> "issue", phone |-> p])
     /\ UNCHANGED <<codeVars, session, link>>

(* resendOtp for any account, requestOtpLogin for a verified one.          *)
Resend(r, p) ==
  /\ request[r] = Done
  /\ OwnerOf(p) # {}
  /\ Proceeds(r, [pc |-> "issue", phone |-> p])
  /\ UNCHANGED <<user, codeVars, session, link>>

MaySignIn(e) == e \in Known /\ user[e].verified

PasswordSignIn(r, e) ==
  /\ request[r] = Done
  /\ MaySignIn(e)
  /\ Proceeds(r, [pc |-> "session", email |-> e])
  /\ UNCHANGED <<user, codeVars, session, link>>

(* continueWithGoogle: of two first calls at once one fails on the email.  *)
GoogleSignIn(r, e) ==
  /\ request[r] = Done
  /\ user' = [user EXCEPT ![e] = [phone |-> IF e \in Known THEN user[e].phone ELSE NoCode, verified |-> TRUE]]
  /\ Proceeds(r, [pc |-> "session", email |-> e])
  /\ UNCHANGED <<codeVars, session, link>>

Logout(s) ==
  /\ session[s] # NoOne
  /\ session' = [session EXCEPT ![s] = NoOne]
  /\ UNCHANGED <<user, codeVars, link, request>>

LogoutEverywhere(e) ==
  /\ \E s \in Sessions : session[s] = e
  /\ session' = [s \in Sessions |-> IF session[s] = e THEN NoOne ELSE session[s]]
  /\ UNCHANGED <<user, codeVars, link, request>>

-----------------------------------------------------------------------------
(* requestPasswordReset deletes the unused links and makes a new one;      *)
(* resetPassword checks a link, and later uses it up, in one transaction   *)
(* that fails if the link is gone.                                         *)
UnusedOf(e) == {t \in ResetLinks : link[t] # NoCode /\ link[t].email = e /\ ~link[t].used}

AskReset(r, e) ==
  /\ request[r] = Done
  /\ e \in Known
  /\ link' = [t \in ResetLinks |-> IF t \in UnusedOf(e) THEN NoCode ELSE link[t]]
  /\ Proceeds(r, [pc |-> "mint", email |-> e])
  /\ UNCHANGED <<user, codeVars, session>>

MintLink(r) ==
  /\ request[r].pc = "mint"
  /\ \E t \in ResetLinks :
       link[t] = NoCode /\ link' = [link EXCEPT ![t] = [email |-> request[r].email, used |-> FALSE]]
  /\ Ends(r)
  /\ UNCHANGED <<user, codeVars, session>>

OpenLink(r, t) ==
  /\ request[r] = Done
  /\ link[t] # NoCode /\ ~link[t].used
  /\ Proceeds(r, [pc |-> "reset", link |-> t, email |-> link[t].email])
  /\ UNCHANGED <<user, codeVars, session, link>>

ResetPassword(r) ==
  LET t == request[r].link IN
  /\ request[r].pc = "reset"
  /\ IF link[t] # NoCode
     THEN /\ link' = [link EXCEPT ![t].used = TRUE]
          /\ session' = [s \in Sessions |-> IF session[s] = request[r].email THEN NoOne ELSE session[s]]
     ELSE UNCHANGED <<link, session>>
  /\ Ends(r)
  /\ UNCHANGED <<user, codeVars>>

Next ==
  \/ \E r \in Requests :
       \/ IssueRead(r) \/ Send(r) \/ ReadCode(r) \/ ClaimAndCompare(r) \/ Consume(r)
       \/ Verify(r) \/ StartSession(r) \/ FreePhone(r) \/ SignUpWrite(r) \/ MintLink(r) \/ ResetPassword(r)
       \/ \E p \in Phones : Resend(r, p) \/ \E guess \in sent \cup {NoCode} : Enter(r, p, guess)
       \/ \E e \in Emails :
            \/ PasswordSignIn(r, e) \/ GoogleSignIn(r, e) \/ AskReset(r, e)
            \/ \E p \in Phones : SignUpRead(r, e, p)
       \/ \E t \in ResetLinks : OpenLink(r, t)
  \/ \E s \in Sessions : Logout(s)
  \/ \E e \in Emails : LogoutEverywhere(e)

Spec == Init /\ [][Next]_signInVars

-----------------------------------------------------------------------------
(* Every row has a shape its table allows, and a session is of a verified  *)
(* account, whichever way it began (verifyOtp, signIn, continueWithGoogle).*)
TypeOK ==
  /\ \A e \in Known : user[e] \in UserRow
  /\ \A p \in Phones : otp[p] # NoCode =>
       otp[p] \in OtpRow /\ otp[p].code \in sent /\ otp[p].attempts \in 0..MaxAttempts
  /\ \A t \in ResetLinks : link[t] # NoCode => link[t] \in LinkRow
  /\ \A e, f \in Known : e # f /\ user[e].phone = user[f].phone => user[e].phone = NoCode
  /\ \A s \in Sessions : session[s] # NoOne => session[s] \in Known /\ user[session[s]].verified

(* However many requests guess at once, no more than the allowed attempts  *)
(* are compared with one code (consumeOtp: "Claim an attempt atomically    *)
(* *before* comparing").                                                   *)
AttemptsBounded == \A k \in Codes : compared[k] <= MaxAttempts

(* A code lets one request through (consumeOtp: "a concurrent correct guess*)
(* may already have consumed it"), and nobody once a newer one was sent    *)
(* (issueOtp: "issuing a new one overwrites the old one").                 *)
CodeServesOnce ==
  [][\A k \in Codes : uses'[k] # uses[k] =>
       uses[k] = 0 /\ \E p \in Phones : otp[p] # NoCode /\ otp[p].code = k]_signInVars
=============================================================================
