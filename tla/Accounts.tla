-------------------------------- MODULE Accounts --------------------------------
(***************************************************************************)
(* Customers' accounts: sign-up, one-time codes, sessions and their        *)
(* rotation, logout, password reset, and the address book.                 *)
(*                                                                         *)
(* An account is named by its email.  Tokens are signed, not stored: only  *)
(* revocations are, so a session ends by what the guard compares with the  *)
(* account.  The address book is read, changed and written back whole.     *)
(* The guard's two reads are one step.                                     *)
(***************************************************************************)
EXTENDS Integers, SequencesExt

CONSTANTS
    Customers,      \* email addresses
    AddressIds,
    Grace,          \* seconds a rotated refresh token is still accepted
    CodeTime,       \* seconds a one-time code is valid
    LastSecond,     \* bound on the clock
    MaxTokens,      \* bound on the tokens issued
    MaxCodes,       \* bound on the codes sent
    Visitors        \* request handlers

ASSUME AccountsAssumption == Grace \in Nat /\ CodeTime \in Nat /\ AddressIds \subseteq Nat \ {0}

Never == -1

OtpType == {"CONFIRMATION", "RESET_PASSWORD"}

VARIABLES
    account,        \* account[u]: the user document, with the number of logouts so far
    code,           \* code[u][type]: the codes on file, oldest first: [id, expireTime]
    token,          \* the tokens issued: [of, kind, iat, revoked, logouts]
    sent,           \* codes sent so far
    second,         \* the clock
    accountPc, accountLoc

accountVars == <<account, code, token, sent, second, accountPc, accountLoc>>

-------------------------------------------------------------------------------
NoAccount == [live |-> FALSE, verified |-> FALSE, active |-> TRUE, passwordChangedAt |-> Never,
              tokensRevokedAt |-> Never, addresses |-> <<>>, logouts |-> 0]

(* The account and kind of code concerned, the position of the token       *)
(* presented and of the refresh token sent with it, the address book.      *)
NoVisit == [user |-> "", type |-> "", token |-> 0, other |-> 0, id |-> 0, book |-> <<>>]

InitAccounts ==
    /\ account = [u \in Customers |-> NoAccount]
    /\ code = [u \in Customers |-> [type \in OtpType |-> <<>>]]
    /\ token = <<>>
    /\ sent = 0
    /\ second = 0
    /\ accountPc = [v \in Visitors |-> "idle"]
    /\ accountLoc = [v \in Visitors |-> NoVisit]

VisitGo(v, label, held) == /\ accountPc' = [accountPc EXCEPT ![v] = label]
                           /\ accountLoc' = [accountLoc EXCEPT ![v] = held]

VisitDone(v) == VisitGo(v, "idle", NoVisit)

Visit(u, type) == [NoVisit EXCEPT !.user = u, !.type = type]

(* A fresh token of u, in a session opened after so many logouts. *)
Token(u, kind, logouts) ==
    [of |-> u, kind |-> kind, iat |-> second, revoked |-> Never, logouts |-> logouts]

TokenPair(u, logouts) == <<Token(u, "access", logouts), Token(u, "refresh", logouts)>>

(* Adding a revocation; the first one is the one read. *)
Revoke(i) == IF token[i].revoked = Never THEN [token EXCEPT ![i].revoked = second] ELSE token

Rotating(i) == second - token[i].revoked < Grace

(* Mutant: a token issued in the second of the logout passes. *)
AdmittedSameSecond(i) ==
    LET t == token[i]  u == account[token[i].of]
    IN  /\ t.revoked # Never => t.kind = "refresh" /\ Rotating(i)
        /\ u.active /\ t.iat >= u.passwordChangedAt /\ t.iat >= u.tokensRevokedAt

(* AuthGuard.canActivate: not revoked but for a refresh token just rotated, *)
(* of an active account, issued no earlier than its last password and later *)
(* than its last logout.                                                    *)
Admitted(i) ==
    LET t == token[i]  u == account[token[i].of]
    IN  /\ t.revoked # Never => t.kind = "refresh" /\ Rotating(i)
        /\ u.active
        /\ t.iat >= u.passwordChangedAt
        /\ t.iat > u.tokensRevokedAt

Presented(kind) == {i \in DOMAIN token : token[i].kind = kind}

-------------------------------------------------------------------------------
(* singup: the address is looked up, the account created (the index on the *)
(* address decides), a code sent.                                          *)
ReadSignup(v) ==
    /\ accountPc[v] = "idle"
    /\ \E u \in Customers : ~account[u].live /\ VisitGo(v, "create", Visit(u, "CONFIRMATION"))
    /\ UNCHANGED <<account, code, token, sent, second>>

CreateAccount(v) ==
    LET u == accountLoc[v].user
    IN  /\ accountPc[v] = "create"
        /\ IF account[u].live THEN VisitDone(v) ELSE VisitGo(v, "dropCodes", accountLoc[v])
        /\ account' = [account EXCEPT ![u].live = TRUE]
        /\ UNCHANGED <<code, token, sent, second>>

(* sendOtp, forgotPassword *)
ReadForCode(v) ==
    /\ accountPc[v] = "idle"
    /\ \E u \in Customers, type \in OtpType :
          /\ account[u].live
          /\ type = "CONFIRMATION" => ~account[u].verified
          /\ VisitGo(v, "dropCodes", Visit(u, type))
    /\ UNCHANGED <<account, code, token, sent, second>>

(* generateAndSendOtp: the codes on file go, the new one is stored. *)
DropCodes(v) ==
    LET l == accountLoc[v]
    IN  /\ accountPc[v] \in {"dropCodes", "dropResetCodes"}
        /\ code' = [code EXCEPT ![l.user][l.type] = <<>>]
        /\ VisitGo(v, IF accountPc[v] = "dropCodes" THEN "createCode" ELSE "revokeReset", l)
        /\ UNCHANGED <<account, token, sent, second>>

CreateCode(v) ==
    LET l == accountLoc[v]
    IN  /\ accountPc[v] = "createCode" /\ sent < MaxCodes
        /\ sent' = sent + 1
        /\ code' = [code EXCEPT ![l.user][l.type] = Append(@, [id |-> sent + 1, expireTime |-> second + CodeTime])]
        /\ VisitDone(v)
        /\ UNCHANGED <<account, token, second>>

(* confirmEmail and confirmResetOtp: the oldest code on file, not expired, *)
(* is compared ...                                                         *)
ReadCode(v) ==
    /\ accountPc[v] = "idle"
    /\ \E u \in Customers, type \in OtpType :
          /\ code[u][type] # <<>> /\ Head(code[u][type]).expireTime >= second
          /\ VisitGo(v, IF type = "CONFIRMATION" THEN "verify" ELSE "spendCode",
                     [Visit(u, type) EXCEPT !.id = Head(code[u][type]).id])
    /\ UNCHANGED <<account, code, token, sent, second>>

VerifyEmail(v) ==
    /\ accountPc[v] = "verify"
    /\ account' = [account EXCEPT ![accountLoc[v].user].verified = TRUE]
    /\ VisitGo(v, "spendCode", accountLoc[v])
    /\ UNCHANGED <<code, token, sent, second>>

(* ... deleted, ... *)
SpendCode(v) ==
    LET l == accountLoc[v]
    IN  /\ accountPc[v] = "spendCode"
        /\ code' = [code EXCEPT ![l.user][l.type] = SelectSeq(@, LAMBDA row : row.id # l.id)]
        /\ IF l.type = "CONFIRMATION" THEN VisitDone(v) ELSE VisitGo(v, "issueReset", l)
        /\ UNCHANGED <<account, token, sent, second>>

(* ... and answered with a token for one reset. *)
IssueReset(v) ==
    LET u == accountLoc[v].user
    IN  /\ accountPc[v] = "issueReset" /\ Len(token) < MaxTokens
        /\ token' = Append(token, Token(u, "reset", account[u].logouts))
        /\ VisitDone(v)
        /\ UNCHANGED <<account, code, sent, second>>

(* resetPassword: the token is looked up among the revoked ones, the       *)
(* password written, the codes deleted, the token revoked.                 *)
ReadReset(v) ==
    /\ accountPc[v] = "idle"
    /\ \E i \in Presented("reset") :
          /\ token[i].revoked = Never
          /\ VisitGo(v, "writePassword", [Visit(token[i].of, "RESET_PASSWORD") EXCEPT !.token = i])
    /\ UNCHANGED <<account, code, token, sent, second>>

WritePassword(v) ==
    /\ accountPc[v] = "writePassword"
    /\ account' = [account EXCEPT ![accountLoc[v].user].passwordChangedAt = second]
    /\ VisitGo(v, "dropResetCodes", accountLoc[v])
    /\ UNCHANGED <<code, token, sent, second>>

RevokeReset(v) ==
    /\ accountPc[v] = "revokeReset"
    /\ token' = Revoke(accountLoc[v].token)
    /\ VisitDone(v)
    /\ UNCHANGED <<account, code, sent, second>>

-------------------------------------------------------------------------------
(* login *)
Login(v) ==
    /\ accountPc[v] = "idle" /\ Len(token) + 2 <= MaxTokens
    /\ \E u \in Customers :
          /\ account[u].live /\ account[u].active /\ account[u].verified
          /\ token' = token \o TokenPair(u, account[u].logouts)
    /\ UNCHANGED <<account, code, sent, second, accountPc, accountLoc>>

(* generateAccessToken: behind the guard the revocation is read again;     *)
(* the token is revoked if it was not, and a new pair issued.              *)
AdmitRefresh(v) ==
    /\ accountPc[v] = "idle"
    /\ \E i \in Presented("refresh") :
          Admitted(i) /\ VisitGo(v, "rotate", [Visit(token[i].of, "") EXCEPT !.token = i])
    /\ UNCHANGED <<account, code, token, sent, second>>

ReadRotation(v) ==
    LET i == accountLoc[v].token
    IN  /\ accountPc[v] = "rotate"
        /\ IF token[i].revoked = Never THEN VisitGo(v, "revokeOld", accountLoc[v])
           ELSE IF Rotating(i) THEN VisitGo(v, "issuePair", accountLoc[v])
           ELSE VisitDone(v)
        /\ UNCHANGED <<account, code, token, sent, second>>

RevokeOld(v) ==
    /\ accountPc[v] = "revokeOld"
    /\ token' = Revoke(accountLoc[v].token)
    /\ VisitGo(v, "issuePair", accountLoc[v])
    /\ UNCHANGED <<account, code, sent, second>>

IssuePair(v) ==
    LET t == token[accountLoc[v].token]
    IN  /\ accountPc[v] = "issuePair" /\ Len(token) + 2 <= MaxTokens
        /\ token' = token \o TokenPair(t.of, t.logouts)
        /\ VisitDone(v)
        /\ UNCHANGED <<account, code, sent, second>>

(* logout: the access token is revoked, the refresh token if one came that *)
(* still verifies, and every token issued so far by the time stamp.        *)
AdmitLogout(v) ==
    /\ accountPc[v] = "idle"
    /\ \E i \in Presented("access") : \E r \in Presented("refresh") \cup {0} :
          /\ Admitted(i)
          /\ VisitGo(v, "revokeAccess", [Visit(token[i].of, "") EXCEPT !.token = i, !.other = r])
    /\ UNCHANGED <<account, code, token, sent, second>>

RevokeAccess(v) ==
    /\ accountPc[v] = "revokeAccess"
    /\ token' = Revoke(accountLoc[v].token)
    /\ VisitGo(v, IF accountLoc[v].other = 0 THEN "stampLogout" ELSE "revokeRefresh", accountLoc[v])
    /\ UNCHANGED <<account, code, sent, second>>

RevokeRefresh(v) ==
    /\ accountPc[v] = "revokeRefresh"
    /\ token' = Revoke(accountLoc[v].other)
    /\ VisitGo(v, "stampLogout", accountLoc[v])
    /\ UNCHANGED <<account, code, sent, second>>

StampLogout(v) ==
    /\ accountPc[v] = "stampLogout"
    /\ account' = [account EXCEPT ![accountLoc[v].user].logouts = @ + 1,
                                  ![accountLoc[v].user].tokensRevokedAt = second]
    /\ VisitDone(v)
    /\ UNCHANGED <<code, token, sent, second>>

(* UserService.updateStatus *)
UpdateStatus(v) ==
    /\ accountPc[v] = "idle"
    /\ \E u \in Customers : account[u].live /\ account' = [account EXCEPT ![u].active = ~@]
    /\ UNCHANGED <<code, token, sent, second, accountPc, accountLoc>>

-------------------------------------------------------------------------------
Ids(book) == {book[n].id : n \in DOMAIN book}

(* The book with address id marked, or not, and no other one marked. *)
OnlyDefault(book, id) == [n \in DOMAIN book |-> [book[n] EXCEPT !.isDefault = book[n].id = id]]

(* addAddress: the first one is the default whatever was asked. *)
Added(book, id, isDefault) ==
    LET default == isDefault \/ book = <<>>
    IN  Append(IF default THEN OnlyDefault(book, 0) ELSE book, [id |-> id, isDefault |-> default])

(* Mutant: the other addresses keep their mark. *)
UpdatedAlone(book, id, isDefault) ==
    [n \in DOMAIN book |-> IF book[n].id = id THEN [book[n] EXCEPT !.isDefault = isDefault] ELSE book[n]]

(* updateAddress *)
Updated(book, id, isDefault) ==
    IF isDefault THEN OnlyDefault(book, id)
    ELSE [n \in DOMAIN book |-> IF book[n].id = id THEN [book[n] EXCEPT !.isDefault = FALSE] ELSE book[n]]

(* The books a request may turn the one it read into: addAddress,          *)
(* updateAddress and setDefaultAddress, deleteAddress.                     *)
Changed(book) ==
    {Added(book, id, d) : id \in AddressIds \ Ids(book), d \in BOOLEAN}
    \cup {Updated(book, id, d) : id \in Ids(book), d \in BOOLEAN}
    \cup {RemoveAt(book, n) : n \in DOMAIN book}

ReadAddresses(v) ==
    /\ accountPc[v] = "idle"
    /\ \E u \in Customers : \E book \in Changed(account[u].addresses) :
          account[u].live /\ VisitGo(v, "writeAddresses", [Visit(u, "") EXCEPT !.book = book])
    /\ UNCHANGED <<account, code, token, sent, second>>

WriteAddresses(v) ==
    /\ accountPc[v] = "writeAddresses"
    /\ account' = [account EXCEPT ![accountLoc[v].user].addresses = accountLoc[v].book]
    /\ VisitDone(v)
    /\ UNCHANGED <<code, token, sent, second>>

-------------------------------------------------------------------------------
NextSecond ==
    /\ second < LastSecond
    /\ second' = second + 1
    /\ UNCHANGED <<account, code, token, sent, accountPc, accountLoc>>

CodeStep(v) ==
    \/ ReadSignup(v) \/ CreateAccount(v) \/ ReadForCode(v) \/ DropCodes(v) \/ CreateCode(v)
    \/ ReadCode(v) \/ VerifyEmail(v) \/ SpendCode(v) \/ IssueReset(v)
    \/ ReadReset(v) \/ WritePassword(v) \/ RevokeReset(v)

SessionStep(v) ==
    \/ Login(v) \/ AdmitRefresh(v) \/ ReadRotation(v) \/ RevokeOld(v) \/ IssuePair(v)
    \/ AdmitLogout(v) \/ RevokeAccess(v) \/ RevokeRefresh(v) \/ StampLogout(v) \/ UpdateStatus(v)

AddressStep(v) == ReadAddresses(v) \/ WriteAddresses(v)

NextAccounts == (\E v \in Visitors : CodeStep(v) \/ SessionStep(v) \/ AddressStep(v)) \/ NextSecond

SpecAccounts == InitAccounts /\ [][NextAccounts]_accountVars

-------------------------------------------------------------------------------
(* Whatever two requests read and write back in turn, an address book has  *)
(* at most one default address: checkout fills in the default one.         *)
AtMostOneDefaultAddress ==
    \A u \in Customers :
        LET book == account[u].addresses
        IN  \A m, n \in DOMAIN book : book[m].isDefault /\ book[n].isDefault => m = n

(* Where requests follow one another, no session opened before the last    *)
(* logout of its account is admitted, however often its tokens were        *)
(* rotated, on how many devices, and however recently.                     *)
SessionsEnd ==
    \A i \in DOMAIN token :
        token[i].kind # "reset" /\ Admitted(i) => token[i].logouts = account[token[i].of].logouts
===============================================================================
