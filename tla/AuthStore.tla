----------------------------- MODULE AuthStore -----------------------------
(***************************************************************************)
(* The subscription login (fyai_auth.c): processes that refresh it, sign   *)
(* in, sign out and read it, with one lock file between them, a store that *)
(* is a file or the keyring of the desktop, and a provider that issues a   *)
(* new refresh token for each one it is shown and takes none again.        *)
(*                                                                         *)
(* A process has one request at a time.  Its steps are its handlers: an    *)
(* event, the end of a transfer, the timer that tries the lock again; the  *)
(* two writes of a save are steps of their own, for the readers without    *)
(* the lock and the death of a process come between them.                  *)
(***************************************************************************)
EXTENDS Integers, FiniteSets

CONSTANTS
    Proc,       \* the processes that use the login
    Accounts,   \* bound: client registrations
    Grants,     \* bound: sign-ins the provider completes
    MaxGen,     \* bound: refresh tokens of one sign-in
    Ops,        \* bound: requests of all processes
    NoProc,     \* nobody
    Faults      \* bound: what goes wrong in an instance

Account == 1 .. Accounts
Grant == 1 .. Grants

ASSUME AuthAssumption ==
    /\ Accounts \in Nat \ {0} /\ Grants \in Nat \ {0} /\ MaxGen \in Nat \ {0}
    /\ Ops \in Nat /\ NoProc \notin Proc
    /\ Faults \subseteq {"crash", "cancel", "outage", "disk"}

VARIABLES
    file,       \* auth.json
    ring,       \* the keyring entry
    up,         \* is the keyring to be reached?
    lock,       \* who holds auth.lock
    gen,        \* the provider: the newest token of each sign-in
    proc,       \* the processes and their requests
    harm,       \* history: how a token or a record has been lost
    left        \* bound: requests to come

store == <<file, ring, up>>
vars == <<file, ring, up, lock, gen, proc, harm, left>>

(***************************************************************************)
(* Records.  A token is a sign-in and a number of its refresh tokens.  A   *)
(* record holds the registrations, with their tokens, and the active one.  *)
(***************************************************************************)
Token(g, n) == [grant |-> g, n |-> n]
NotRegistered == Token(-1, 0)
SignedOut == Token(0, 0)

NoRecord == [who |-> 0, reg |-> [a \in Account |-> NotRegistered]]
Absent == [NoRecord EXCEPT !.who = -1]
FirstLogin == [who |-> 1, reg |-> [NoRecord.reg EXCEPT ![1] = Token(1, 1)]]

Registered(c, a) == c.reg[a].grant >= 0
Ready(c) == c.who > 0 /\ c.reg[c.who].grant > 0
Active(c) == c.reg[c.who]

(* auth is ctx->auth; cred the credentials of a sign-in and acct its       *)
(* registration, 0 for a new one; out is what is being saved and then what *)
(* follows.                                                                *)
Idle == [st |-> "idle", op |-> "none", then |-> "idle", acct |-> 0, sent |-> SignedOut,
         auth |-> NoRecord, cred |-> NoRecord, out |-> NoRecord]

Init ==
    /\ \/ ring = FirstLogin /\ file = Absent
       \/ ring = Absent /\ file = FirstLogin
       \/ ring = Absent /\ file = Absent
    /\ up = TRUE
    /\ lock = NoProc
    /\ gen = [g \in Grant |-> IF {ring, file} # {Absent} /\ g = 1 THEN 1 ELSE 0]
    /\ proc = [p \in Proc |-> Idle]
    /\ harm = {}
    /\ left = Ops

(* Mutant: the entry of the keyring, which an outage leaves behind, comes  *)
(* before the file.                                                        *)
LoadRingFirst == IF up /\ ring # Absent THEN ring ELSE file

(* auth_load: the file takes precedence.                                   *)
Load == IF file # Absent THEN file ELSE IF up THEN ring ELSE Absent

(* What ctx->auth is after a load: cleared by one that fails.              *)
AuthOf(c) == IF c = Absent THEN NoRecord ELSE c

(* The request of p ends.  What it leaves in ctx->auth is read again under *)
(* the lock before it is used.                                             *)
Ends(p) == proc' = [proc EXCEPT ![p] = Idle]
Unlocked(p) == IF lock = p THEN NoProc ELSE lock

Asked(p, op) == [proc[p] EXCEPT !.op = op]
Asks(p) == proc[p].st = "idle" /\ left > 0 /\ left' = left - 1

(***************************************************************************)
(* Refresh.                                                                *)
(***************************************************************************)
(* fyai_auth_refresh_start_locked: read the login under the lock.  A login *)
(* that is fresh needs no refresh, which another process can have made; a  *)
(* forced refresh does not look.  Whether it is fresh is the clock's.      *)
StartLocked(p, q) ==
    LET auth == AuthOf(Load)
    IN \/ /\ Ready(auth)
          /\ proc' = [proc EXCEPT ![p] = [q EXCEPT !.auth = auth, !.st = "keys", !.sent = Active(auth)]]
          /\ lock' = p
       \/ /\ ~Ready(auth) \/ q.op = "refresh"
          /\ Ends(p) /\ UNCHANGED lock

(* fyai_auth_refresh_submit.                                               *)
Submit(p, op) ==
    /\ Asks(p)
    /\ IF lock = NoProc THEN StartLocked(p, Asked(p, op))
       ELSE /\ proc' = [proc EXCEPT ![p] = [Asked(p, op) EXCEPT !.st = "wait"]]
            /\ UNCHANGED lock
    /\ UNCHANGED <<store, gen, harm>>

(* fyai_auth_refresh_lock_timer, when the lock is free.                    *)
LockTimer(p) ==
    /\ proc[p].st = "wait" /\ proc[p].op \in {"refresh", "force"}
    /\ lock = NoProc
    /\ StartLocked(p, proc[p])
    /\ UNCHANGED <<store, gen, harm, left>>

(* Mutant: a request that fails at the signing keys keeps the lock.        *)
KeysAnsweredLocked(p, ok) ==
    /\ proc[p].st = "keys"
    /\ IF ok THEN proc' = [proc EXCEPT ![p].st = "post"] ELSE Ends(p)
    /\ UNCHANGED <<store, lock, gen, harm, left>>

(* fyai_auth_refresh_complete of the signing keys: post the refresh token. *)
KeysAnswered(p, ok) ==
    /\ proc[p].st = "keys"
    /\ IF ok THEN /\ proc' = [proc EXCEPT ![p].st = "post"]
                  /\ UNCHANGED lock
             ELSE Ends(p) /\ lock' = Unlocked(p)
    /\ UNCHANGED <<store, gen, harm, left>>

(* The provider gets the post: a token that is not its newest is refused.  *)
Newest(t) == t.grant > 0 /\ gen[t.grant] = t.n

ProviderRefresh(p) ==
    LET t == proc[p].sent IN
    /\ proc[p].st = "post"
    /\ Newest(t) /\ t.n < MaxGen
    /\ gen' = [gen EXCEPT ![t.grant] = @ + 1]
    /\ proc' = [proc EXCEPT ![p].st = "answered", ![p].sent.n = @ + 1]
    /\ UNCHANGED <<store, lock, harm, left>>

ProviderRefuses(p) ==
    /\ proc[p].st = "post"
    /\ Ends(p) /\ lock' = Unlocked(p)
    /\ UNCHANGED <<store, gen, harm, left>>

(* Mutant: the lock is free while the tokens are saved.                    *)
KeepUnlocked(p) ==
    /\ proc[p].st = "answered"
    /\ proc' = [proc EXCEPT ![p].st = "save",
                   ![p].out = [proc[p].auth EXCEPT !.reg[proc[p].auth.who] = proc[p].sent]]
    /\ lock' = Unlocked(p)
    /\ proc[p].auth.who > 0
    /\ UNCHANGED <<store, gen, harm, left>>

(* fyai_auth_refresh_complete of the tokens.  They are put in ctx->auth as *)
(* it is now: a reader of the process can have cleared it meanwhile, and   *)
(* then the identity is not verified and the tokens are dropped.           *)
KeepTokens(p) ==
    LET auth == proc[p].auth IN
    /\ proc[p].st = "answered"
    /\ IF auth.who > 0
       THEN /\ proc' = [proc EXCEPT ![p].st = "save",
                            ![p].out = [auth EXCEPT !.reg[auth.who] = proc[p].sent]]
            /\ UNCHANGED <<lock, harm>>
       ELSE /\ Ends(p) /\ lock' = Unlocked(p)
            /\ harm' = harm \cup {"token"}
    /\ UNCHANGED <<store, gen, left>>

(***************************************************************************)
(* auth_save, under the lock.                                              *)
(***************************************************************************)
(* A save of tokens that the provider has rotated was not finished.        *)
Lost(p) == /\ proc[p].op \in {"refresh", "force"}
           /\ proc[p].st \in {"answered", "save"} \/ (proc[p].st = "unlink" /\ file # Absent)

(* The record is saved or it is not: a sign-in goes on, else the request   *)
(* ends.                                                                   *)
AfterSave(p, ok) ==
    LET q == proc[p] IN
    /\ proc' = IF ok /\ q.then # "idle"
               THEN [proc EXCEPT ![p].st = q.then, ![p].then = "idle", ![p].out = NoRecord]
               ELSE [proc EXCEPT ![p] = Idle]
    /\ lock' = Unlocked(p)
    /\ harm' = IF ~ok /\ Lost(p) THEN harm \cup {"token"} ELSE harm

SaveRing(p) ==
    /\ proc[p].st = "save" /\ up
    /\ ring' = proc[p].out
    /\ proc' = [proc EXCEPT ![p].st = "unlink"]
    /\ UNCHANGED <<file, up, lock, gen, harm, left>>

(* Mutant: the file stays.                                                 *)
DeleteNoFile(p, ok) ==
    /\ proc[p].st = "unlink" /\ ok
    /\ AfterSave(p, ok)
    /\ UNCHANGED <<file, ring, up, gen, left>>

(* auth_delete_file, after the keyring took the record.                    *)
DeleteFile(p, ok) ==
    /\ proc[p].st = "unlink"
    /\ ok \/ "disk" \in Faults
    /\ file' = IF ok THEN Absent ELSE file
    /\ AfterSave(p, ok)
    /\ UNCHANGED <<ring, up, gen, left>>

(* auth_save_file, when the keyring cannot be reached.                     *)
SaveFile(p, ok) ==
    /\ proc[p].st = "save" /\ ~up
    /\ ok \/ "disk" \in Faults
    /\ file' = IF ok THEN proc[p].out ELSE file
    /\ AfterSave(p, ok)
    /\ UNCHANGED <<ring, up, gen, left>>

(***************************************************************************)
(* Sign in.                                                                *)
(***************************************************************************)
Choices(c) == {0} \cup {a \in Account : Registered(c, a)}

(* fyai_auth_login_submit: auth_prepare_host reads the record under the    *)
(* lock for the registrations, and saves one when there is none to read;   *)
(* acct is the registration to use, 0 to make a new one.                   *)
LoginSubmit(p, acct) ==
    LET c == AuthOf(Load)
        q == [Asked(p, "login") EXCEPT !.acct = acct, !.cred = c]
    IN /\ Asks(p)
       /\ \/ /\ lock # NoProc \/ acct \notin Choices(c)
             /\ UNCHANGED <<lock, proc, harm>>
          \/ /\ lock = NoProc /\ Load # Absent /\ acct \in Choices(c)
             /\ proc' = [proc EXCEPT ![p] = [q EXCEPT !.st = "browser"]]
             /\ UNCHANGED <<lock, harm>>
          \/ /\ lock = NoProc /\ Load = Absent /\ acct = 0
             /\ proc' = [proc EXCEPT ![p] = [q EXCEPT !.st = "save", !.then = "browser"]]
             /\ lock' = p
             /\ harm' = harm \cup {"record"}
       /\ UNCHANGED <<store, gen>>

(* The provider issues an identifier no record has.                        *)
Issued == {a \in Account : \E q \in Proc : Registered(proc[q].cred, a) \/ Registered(proc[q].out, a)}
New(a) == /\ \A b \in Account : b < a =>
                 b \in Issued \/ Registered(file, b) \/ Registered(ring, b)
          /\ ~(a \in Issued \/ Registered(file, a) \/ Registered(ring, a))

(* fyai_auth_login_browser_ready for a registration of the provider:       *)
(* auth_register_pending adds it to the record, under the lock.            *)
Register(p, a) ==
    LET active == AuthOf(Load)
        with == [active EXCEPT !.reg[a] = SignedOut,
                               !.who = IF @ = 0 THEN a ELSE @]
    IN /\ proc[p].st = "browser" /\ proc[p].acct = 0 /\ New(a)
       /\ IF lock = NoProc
          THEN /\ proc' = [proc EXCEPT ![p].st = "save", ![p].then = "exchange",
                              ![p].acct = a, ![p].out = with,
                              ![p].cred = [who |-> a, reg |-> with.reg]]
               /\ lock' = p
               /\ harm' = IF Load = Absent THEN harm \cup {"record"} ELSE harm
          ELSE Ends(p) /\ UNCHANGED <<lock, harm>>
       /\ UNCHANGED <<store, gen, left>>

(* The same for a registration that the record has.                        *)
Redirect(p) ==
    /\ proc[p].st = "browser" /\ proc[p].acct # 0
    /\ proc' = [proc EXCEPT ![p].st = "exchange"]
    /\ UNCHANGED <<store, lock, gen, harm, left>>

(* The redirect says no, is not ours, or does not come in ten minutes      *)
(* (oauth_settle); a transfer of the sign-in fails.                        *)
LoginFails(p) ==
    /\ proc[p].st \in {"browser", "exchange", "jwks"}
    /\ Ends(p)
    /\ UNCHANGED <<store, lock, gen, harm, left>>

(* The provider takes the code: a sign-in with its own refresh tokens.     *)
Exchange(p, g) ==
    /\ proc[p].st = "exchange"
    /\ gen[g] = 0 /\ \A h \in Grant : h < g => gen[h] # 0
    /\ gen' = [gen EXCEPT ![g] = 1]
    /\ proc' = [proc EXCEPT ![p].st = "jwks", ![p].sent = Token(g, 1)]
    /\ UNCHANGED <<store, lock, harm, left>>

(* Mutant: the registrations are those the sign-in began with.             *)
LoginSaveUnread(p) ==
    IF lock # NoProc
    THEN proc' = [proc EXCEPT ![p].st = "wait"] /\ UNCHANGED <<lock, harm>>
    ELSE /\ proc' = [proc EXCEPT ![p].st = "save",
              ![p].out = [who |-> proc[p].acct,
                          reg |-> [proc[p].cred.reg EXCEPT ![proc[p].acct] = proc[p].sent]]]
         /\ lock' = p /\ UNCHANGED harm

(* fyai_auth_login_save: the registrations are read again under the lock;  *)
(* when they cannot be read, those the sign-in has read before are used.   *)
LoginSave(p) ==
    LET q == proc[p]
        reg == IF Load = Absent THEN q.cred.reg ELSE Load.reg
    IN IF lock # NoProc
       THEN proc' = [proc EXCEPT ![p].st = "wait"] /\ UNCHANGED <<lock, harm>>
       ELSE /\ proc' = [proc EXCEPT ![p].st = "save",
                  ![p].out = [who |-> q.acct, reg |-> [reg EXCEPT ![q.acct] = q.sent]]]
            /\ lock' = p
            /\ harm' = IF Load = Absent THEN harm \cup {"token", "record"} ELSE harm

(* fyai_auth_login_http_complete of the signing keys.                      *)
LoginKeys(p) ==
    /\ proc[p].st = "jwks"
    /\ LoginSave(p)
    /\ UNCHANGED <<store, gen, left>>

(* fyai_auth_login_credential_timer, when the lock is free.                *)
CredentialTimer(p) ==
    /\ proc[p].st = "wait" /\ proc[p].op = "login"
    /\ lock = NoProc
    /\ LoginSave(p)
    /\ UNCHANGED <<store, gen, left>>

(***************************************************************************)
(* Sign out, read, cancel.                                                 *)
(***************************************************************************)
(* fyai_auth_logout: the lock is tried once.                               *)
Logout(p) ==
    /\ Asks(p)
    /\ IF lock # NoProc
       THEN UNCHANGED <<lock, proc>>
       ELSE IF Load = Absent
       THEN UNCHANGED <<lock, proc>>
       ELSE /\ proc' = [proc EXCEPT ![p] = [Asked(p, "logout") EXCEPT
                            !.st = "revoke", !.cred = Load]]
            /\ lock' = p
    /\ UNCHANGED <<store, gen, harm>>

(* revoke_token has been answered, or has not; the registration is kept.   *)
Revoked(p) ==
    LET c == proc[p].cred IN
    /\ proc[p].st = "revoke"
    /\ proc' = [proc EXCEPT ![p].st = "save", ![p].cred = NoRecord,
                   ![p].out = IF c.who = 0 THEN c ELSE [c EXCEPT !.reg[c.who] = SignedOut]]
    /\ UNCHANGED <<store, lock, gen, harm, left>>

(* fyai_auth_store_load, for a request to a model, while the process       *)
(* refreshes the login: it takes no lock.                                  *)
StoreLoad(p) ==
    /\ proc[p].st \in {"keys", "post", "answered"}
    /\ proc' = [proc EXCEPT ![p].auth = AuthOf(Load)]
    /\ UNCHANGED <<store, lock, gen, harm, left>>

(* fyai_auth_refresh_cancel, fyai_auth_login_cancel.  A transfer is        *)
(* stopped, and its end is reported by a deferred call.                    *)
Cancel(p) ==
    /\ "cancel" \in Faults
    /\ \/ /\ proc[p].st \in {"wait", "browser"}
          /\ Ends(p) /\ UNCHANGED harm
       \/ /\ proc[p].st \in {"keys", "post", "answered", "exchange", "jwks"}
          /\ proc' = [proc EXCEPT ![p].st = "aborting"]
          /\ harm' = IF proc[p].st = "answered" THEN harm \cup {"token"} ELSE harm
    /\ UNCHANGED <<store, lock, gen, left>>

Aborted(p) ==
    /\ proc[p].st = "aborting"
    /\ Ends(p) /\ lock' = Unlocked(p)
    /\ UNCHANGED <<store, gen, harm, left>>

(* fyai_auth_refresh_destroy, fyai_auth_login_destroy: the owner of a      *)
(* request that has not ended takes it back.                               *)
Destroy(p) ==
    /\ "cancel" \in Faults
    /\ proc[p].st \in {"wait", "keys", "post", "answered", "aborting", "browser",
                      "exchange", "jwks"}
    /\ Ends(p) /\ lock' = Unlocked(p)
    /\ harm' = IF Lost(p) THEN harm \cup {"token"} ELSE harm
    /\ UNCHANGED <<store, gen, left>>

(***************************************************************************)
(* The environment.                                                        *)
(***************************************************************************)
(* A process dies; the kernel drops its lock.                              *)
Crash(p) ==
    /\ "crash" \in Faults
    /\ proc[p].st # "idle"
    /\ Ends(p) /\ lock' = Unlocked(p)
    /\ harm' = IF Lost(p) THEN harm \cup {"token"} ELSE harm
    /\ UNCHANGED <<store, gen, left>>

(* The keyring service stops, or runs again.                               *)
Keyring ==
    /\ "outage" \in Faults
    /\ up' = ~up
    /\ UNCHANGED <<file, ring, lock, gen, proc, harm, left>>

RefreshNext(p) ==
    \/ \E op \in {"refresh", "force"} : Submit(p, op)
    \/ LockTimer(p) \/ ProviderRefresh(p) \/ ProviderRefuses(p) \/ KeepTokens(p)
    \/ \E ok \in BOOLEAN : KeysAnswered(p, ok)

SaveNext(p) ==
    \/ SaveRing(p)
    \/ \E ok \in BOOLEAN : DeleteFile(p, ok) \/ SaveFile(p, ok)

LoginNext(p) ==
    \/ \E a \in 0 .. Accounts : LoginSubmit(p, a)
    \/ \E a \in Account : Register(p, a)
    \/ \E g \in Grant : Exchange(p, g)
    \/ Redirect(p) \/ LoginFails(p) \/ LoginKeys(p) \/ CredentialTimer(p)

Next ==
    \/ \E p \in Proc :
         \/ RefreshNext(p) \/ SaveNext(p) \/ LoginNext(p)
         \/ Logout(p) \/ Revoked(p) \/ StoreLoad(p)
         \/ Cancel(p) \/ Aborted(p) \/ Destroy(p) \/ Crash(p)
    \/ Keyring

Spec == Init /\ [][Next]_vars

(* A transfer ends (CURLOPT_TIMEOUT), the redirect is waited for ten       *)
(* minutes, a timer fires, a handler runs to its end.                      *)
Fairness ==
    \A p \in Proc :
        /\ WF_vars(LockTimer(p) \/ CredentialTimer(p))
        /\ WF_vars(KeysAnswered(p, TRUE)) /\ WF_vars(ProviderRefuses(p))
        /\ WF_vars(KeepTokens(p)) /\ WF_vars(SaveNext(p))
        /\ WF_vars(LoginFails(p)) /\ WF_vars(Revoked(p)) /\ WF_vars(Aborted(p))

FairSpec == Spec /\ Fairness

(***************************************************************************)
(* Properties.                                                             *)
(***************************************************************************)
Tokens == [grant : -1 .. Grants, n : 0 .. MaxGen]
Records == [who : -1 .. Accounts, reg : [Account -> Tokens]]
Procs == [st : {"idle", "wait", "keys", "post", "answered", "aborting", "browser",
                "exchange", "jwks", "revoke", "save", "unlink"},
          op : {"none", "refresh", "force", "login", "logout"},
          then : {"idle", "browser", "exchange"},
          acct : 0 .. Accounts, sent : Tokens, auth : Records, cred : Records,
          out : Records]

(* Types; among them that who is to save has the lock.                     *)
TypeOK ==
    /\ file \in Records /\ ring \in Records /\ up \in BOOLEAN
    /\ lock \in Proc \cup {NoProc}
    /\ gen \in [Grant -> 0 .. MaxGen]
    /\ proc \in [Proc -> Procs]
    /\ harm \subseteq {"token", "record"} /\ left \in 0 .. Ops
    /\ \A p \in Proc : proc[p].st \in {"keys", "post", "answered", "revoke", "save", "unlink"}
                          => lock = p

(* What a load reads when the keyring can be reached.                      *)
Stored == IF file # Absent THEN file ELSE ring

(* A refresh token is shown to the provider once: a process that waited    *)
(* for the lock uses what the one before it stored, whichever of the two   *)
(* stores took it.                                                         *)
PostsNewest ==
    "token" \notin harm => \A p \in Proc : proc[p].st = "post" => Newest(proc[p].sent)

(* When nobody has the lock, the store has the newest token of every       *)
(* sign-in that it names, unless an answer of the provider has been lost.  *)
StoredIsNewest ==
    (lock = NoProc /\ "token" \notin harm) =>
        \A a \in Account : Stored.reg[a].grant > 0 => Newest(Stored.reg[a])

(* A refresh changes the token of the sign-in it read, and nothing else: a *)
(* sign-in or a sign-out that another process made is not undone by it.    *)
RefreshKeepsRest ==
    [][\A p \in Proc :
        (proc[p].op \in {"refresh", "force"} /\ proc[p].st = "save" /\ proc[p].st' # "save") =>
            \A a \in Account :
                \/ Stored'.reg[a] = Stored.reg[a]
                \/ a = Stored.who /\ Stored'.reg[a] = [Stored.reg[a] EXCEPT !.n = @ + 1]
      ]_vars

(* A registration stays in the store, whoever writes it next.              *)
RegistrationsStay ==
    [][\A a \in Account :
        (Registered(Stored, a) /\ "record" \notin harm') => Registered(Stored', a)]_vars

(* Every request ends, if each process makes finitely many.                *)
RequestsEnd == \A p \in Proc : proc[p].st # "idle" ~> proc[p].st = "idle"
=============================================================================
