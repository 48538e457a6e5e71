------------------------------ MODULE CLILogin ------------------------------
(***************************************************************************)
(* `pinniped login oidc`: the processes that kubectl starts, several at a  *)
(* time, and what they share: the file of cluster credentials, the file of *)
(* sessions, each with its lock, and the refresh tokens of the provider.   *)
(*                                                                         *)
(*   cmd/pinniped/cmd/login_oidc.go          runOIDCLogin                  *)
(*   pkg/oidcclient/login.go                 Login                         *)
(*   pkg/oidcclient/filesession              the file of sessions          *)
(*   internal/execcredcache                  the file of credentials       *)
(*                                                                         *)
(* All processes have the same arguments, so a file has one entry.  A use  *)
(* of the session file is three steps: Enter locks and reads the file,     *)
(* Truncate empties it (the open in os.WriteFile), Leave writes it and     *)
(* unlocks.  A process that dies leaves the file as it is then, and the    *)
(* lock that flock gave it is free.  The credential file works in the same *)
(* way; nothing depends on how its uses interleave, so that each of them   *)
(* is one step here.                                                       *)
(*                                                                         *)
(* The provider is the Supervisor: a refresh token is used once, and a     *)
(* code that is redeemed again ends its session (module SessionLifecycle). *)
(***************************************************************************)
EXTENDS Naturals, Sequences, FiniteSets

CONSTANTS
  Processes,  \* the runs of the command
  NoToken,    \* no refresh token
  First,      \* the refresh token of a session from before
  MaxPosts,   \* bound: requests to the callback listeners
  MaxAge      \* bound: how often something that is cached gets older

ASSUME NamesAssumption ==
  /\ NoToken \notin (Processes \X {"refresh", "login"}) \cup {First}
  /\ First \notin Processes \X {"refresh", "login"}
ASSUME BoundAssumption == MaxPosts \in Nat /\ MaxAge \in Nat

Ways == {"callback", "prompt", "password"}

\* A process gets one refresh token by refreshing, one by a login of the user.
Tokens == (Processes \X {"refresh", "login"}) \cup {First}
\* What is left of the ID token: more than minIDTokenValidity, less, or nothing.
Validity == {"long", "short", "none"}
Sessions == [id : Validity, refresh : Tokens \cup {NoToken}]
NoSession == [id |-> "none", refresh |-> NoToken]
Messages == [from : {"callback", "prompt"}, ok : BOOLEAN]

Using == {"get session", "put session"}
Places == Using \cup {"get credential", "discover", "refresh", "login", "closing",
                      "exchange", "put credential", "over"}

VARIABLES
  ways,      \* how a user can log in with these arguments; never changes
  state,     \* the session file: absent, whole, or torn
  session,   \* its entry, as it was last written
  holders,   \* the processes that have locked it
  opened,    \* those of them that have truncated it, to write it
  credValid, \* does the credential file have an unexpired credential?
  pc,        \* the place of each process
  cached,    \* what the process read from the session file
  token,     \* the refresh token that the process has obtained
  channel,   \* callbacks: the buffer, then the senders that are blocked
  prompt,    \* the goroutine that prompts for a code: reading, or it has sent
  posts,     \* requests to the callback listener so far
  live,      \* the refresh tokens that the provider would accept
  redeemed,  \* the processes that log in and whose code was redeemed
  lost,      \* the refresh tokens whose replacement nobody will store
  ages       \* how often something got older

files == <<state, session, holders, opened, credValid>>
browser == <<channel, prompt, posts>>
provider == <<live, redeemed>>
vars == <<ways, files, pc, cached, token, browser, provider, lost, ages>>

TypeOK ==
  /\ ways \subseteq Ways
  /\ state \in {"absent", "whole", "torn"}
  /\ session \in Sessions /\ credValid \in BOOLEAN
  /\ holders \subseteq {p \in Processes : pc[p] \in Using} /\ opened \subseteq holders
  /\ pc \in [Processes -> Places]
  /\ cached \in [Processes -> Sessions]
  /\ token \in [Processes -> Tokens \cup {NoToken}]
  /\ channel \in [Processes -> Seq(Messages)]
  /\ prompt \in [Processes -> {"none", "reading", "sent"}]
  /\ posts \in 0..MaxPosts
  /\ live \subseteq Tokens /\ redeemed \subseteq Processes
  /\ lost \subseteq Tokens \cup {NoToken} /\ ages \in 0..MaxAge

\* There is a session from before, in its file, or there is none.
Init ==
  /\ ways \in {{"password"}} \cup SUBSET {"callback", "prompt"}
  /\ session \in {NoSession} \cup [id : Validity, refresh : {First}]
  /\ state = IF session = NoSession THEN "absent" ELSE "whole"
  /\ holders = {} /\ opened = {} /\ credValid = FALSE
  /\ pc = [p \in Processes |-> "get credential"]
  /\ cached = [p \in Processes |-> NoSession]
  /\ token = [p \in Processes |-> NoToken]
  /\ channel = [p \in Processes |-> <<>>]
  /\ prompt = [p \in Processes |-> "none"]
  /\ live = {First} /\ redeemed = {}
  /\ lost = {} /\ posts = 0 /\ ages = 0

Goto(p, place) == pc' = [pc EXCEPT ![p] = place]

\* The command ends; what it held in memory is gone.
End(p) ==
  /\ Goto(p, "over")
  /\ cached' = [cached EXCEPT ![p] = NoSession]
  /\ token' = [token EXCEPT ![p] = NoToken]
  /\ channel' = [channel EXCEPT ![p] = <<>>]
  /\ prompt' = [prompt EXCEPT ![p] = "none"]
  /\ redeemed' = redeemed \ {p}

-----------------------------------------------------------------------------
(* The credential file.                                                    *)

\* runOIDCLogin: an unexpired credential is all that it takes.  It may not be
\* found, because the lock or the file could not be had.
GetCredential(p, hit) ==
  /\ pc[p] = "get credential" /\ (hit => credValid)
  /\ IF hit THEN End(p)
     ELSE Goto(p, "get session") /\ UNCHANGED <<cached, token, channel, prompt, redeemed>>
  /\ UNCHANGED <<ways, files, posts, live, lost, ages>>

\* The credential is stored, or that failed without consequence.
PutCredential(p, stored) ==
  /\ pc[p] = "put credential"
  /\ credValid' = (credValid \/ stored)
  /\ End(p)
  /\ UNCHANGED <<ways, state, session, holders, opened, posts, live, lost, ages>>

-----------------------------------------------------------------------------
(* The session file.                                                       *)

\* baseLogin after GetToken, or PutToken: an ID token that is valid for more than
\* minIDTokenValidity is used as it is.
AfterUse(p, found) ==
  LET ends == pc[p] = "put session" \/ found.id = "long"
  IN  /\ Goto(p, IF ends THEN "exchange" ELSE "discover")
      /\ cached' = [cached EXCEPT ![p] = IF ends THEN NoSession ELSE found]
      /\ token' = [token EXCEPT ![p] = NoToken]

\* GetToken's Stat: there is no file yet, and it returns nil without locking.
Missing(p) ==
  /\ pc[p] = "get session" /\ p \notin holders /\ state = "absent"
  /\ AfterUse(p, NoSession)
  /\ UNCHANGED <<ways, files, browser, provider, lost, ages>>

\* readSessionCache: what cannot be read is replaced by an empty cache.
ReadSession == IF state = "whole" THEN session ELSE NoSession

MutMayLock(p) == p \notin holders
MayLock(p) == holders = {}

\* withCache up to its call of writeTo.  A file that cannot be read is an empty cache.
Enter(p, readable) ==
  /\ pc[p] \in Using /\ MayLock(p)
  /\ pc[p] = "get session" => state # "absent"
  /\ holders' = holders \cup {p}
  /\ cached' = [cached EXCEPT ![p] =
                  IF pc[p] = "put session" THEN @ ELSE IF readable THEN ReadSession ELSE NoSession]
  /\ UNCHANGED <<ways, state, session, opened, credValid, pc, token, browser, provider, lost, ages>>

\* os.WriteFile opens the file, which truncates it.
Truncate(p) ==
  /\ p \in holders \ opened
  /\ opened' = opened \cup {p} /\ state' = "torn"
  /\ UNCHANGED <<ways, session, holders, credValid, pc, cached, token, browser, provider, lost, ages>>

\* GetToken writes the entry that it read, PutToken the new tokens.
WriteSession(p) ==
  session' = IF pc[p] = "get session" THEN cached[p] ELSE [id |-> "long", refresh |-> token[p]]

Unlock(p) == holders' = holders \ {p} /\ opened' = opened \ {p}

\* The write may fail, which is only reported.
Leave(p, written) ==
  /\ p \in opened /\ Unlock(p)
  /\ state' = IF written THEN "whole" ELSE "torn"
  /\ WriteSession(p) /\ AfterUse(p, cached[p])
  /\ UNCHANGED <<ways, credValid, browser, provider, lost, ages>>

\* A PutToken that leaves the file as it is: the token that its process has used
\* up stays there.
PutNothing(p) == lost' = IF pc[p] = "put session" THEN lost \cup {cached[p].refresh} ELSE lost

\* writeTo fails before the file is truncated; GetToken has its result.
LeaveUnwritten(p) ==
  /\ p \in holders \ opened /\ Unlock(p)
  /\ PutNothing(p) /\ AfterUse(p, cached[p])
  /\ UNCHANGED <<ways, state, session, credValid, browser, provider, ages>>

\* trylockFunc gives up or cannot open the lock file, or PutToken cannot make the
\* directory: GetToken finds nothing, PutToken stores nothing.
LockFails(p) ==
  /\ pc[p] \in Using /\ p \notin holders
  /\ pc[p] = "get session" => state # "absent"
  /\ PutNothing(p) /\ AfterUse(p, NoSession)
  /\ UNCHANGED <<ways, files, browser, provider, ages>>

-----------------------------------------------------------------------------
(* baseLogin.                                                              *)

StartLogin(p) ==
  /\ Goto(p, "login")
  /\ cached' = [cached EXCEPT ![p] = NoSession]
  /\ prompt' = [prompt EXCEPT ![p] = IF "prompt" \in ways THEN "reading" ELSE "none"]

\* initOIDCDiscovery, then a refresh if there is a token for it.
Discover(p, ok) ==
  /\ pc[p] = "discover"
  /\ IF ~ok THEN End(p)
     ELSE /\ IF cached[p].refresh = NoToken THEN StartLogin(p)
             ELSE Goto(p, "refresh") /\ UNCHANGED <<cached, prompt>>
          /\ UNCHANGED <<token, channel, redeemed>>
  /\ UNCHANGED <<ways, files, posts, live, lost, ages>>

\* The provider takes the refresh token and gives another one.
Rotate(p) ==
  /\ cached[p].refresh \in live
  /\ live' = (live \ {cached[p].refresh}) \cup {<<p, "refresh">>}

\* handleRefresh: the tokens that come back may yet be refused by
\* ValidateTokenAndMergeWithUserInfo, which ends the command.
Refreshed(p, valid) ==
  /\ pc[p] = "refresh" /\ Rotate(p)
  /\ lost' = IF valid THEN lost ELSE lost \cup {cached[p].refresh}
  /\ IF ~valid THEN End(p)
     ELSE /\ Goto(p, "put session")
          /\ token' = [token EXCEPT ![p] = <<p, "refresh">>]
          /\ UNCHANGED <<cached, channel, prompt, redeemed>>
  /\ UNCHANGED <<ways, files, posts, ages>>

\* An error of PerformRefresh leads to a login of the user; when only the answer
\* was lost, the token is used all the same.
RefreshFails(p, used) ==
  /\ pc[p] = "refresh"
  /\ IF used THEN Rotate(p) ELSE UNCHANGED live
  /\ lost' = IF used THEN lost \cup {cached[p].refresh} ELSE lost
  /\ StartLogin(p)
  /\ UNCHANGED <<ways, files, token, channel, posts, redeemed, ages>>

-----------------------------------------------------------------------------
(* The login of the user.                                                  *)

\* cliBasedAuth: username and password, authorize, redeem the code.  The wait for
\* the password has no time-out.
PasswordLogin(p, ok) ==
  /\ pc[p] = "login" /\ "password" \in ways
  /\ IF ~ok THEN End(p) /\ UNCHANGED live
     ELSE /\ Goto(p, "put session")
          /\ token' = [token EXCEPT ![p] = <<p, "login">>]
          /\ live' = live \cup {<<p, "login">>}
          /\ UNCHANGED <<cached, channel, prompt, redeemed>>
  /\ UNCHANGED <<ways, files, posts, lost, ages>>

\* redeemAuthCode and the message about it: the first one gets tokens, a second
\* one an error, and the provider ends the session that the first one began.
Redeem(p, from) ==
  LET again == p \in redeemed
  IN  /\ channel' = [channel EXCEPT ![p] = Append(@, [from |-> from, ok |-> ~again])]
      /\ redeemed' = redeemed \cup {p}
      /\ live' = IF again THEN live \ {<<p, "login">>} ELSE live \cup {<<p, "login">>}
      /\ lost' = IF again THEN lost \cup {<<p, "login">>} ELSE lost

\* An error before the code is redeemed, or of the redemption itself.
Refuse(p, from) ==
  /\ channel' = [channel EXCEPT ![p] = Append(@, [from |-> from, ok |-> FALSE])]
  /\ UNCHANGED <<provider, lost>>

\* handleAuthCodeCallback, for requests that send a message (not OPTIONS and
\* other methods).  The listener is shut down after the prompt has ended.
Callback(p, good) ==
  /\ pc[p] \in {"login", "closing"} /\ "callback" \in ways
  /\ posts < MaxPosts /\ posts' = posts + 1
  /\ IF good THEN Redeem(p, "callback") ELSE Refuse(p, "callback")
  /\ UNCHANGED <<ways, files, pc, cached, token, prompt, ages>>

\* promptForWebLogin's goroutine: a code is pasted, or the input ends.
Paste(p, good) ==
  /\ pc[p] \in {"login", "closing"} /\ prompt[p] = "reading"
  /\ prompt' = [prompt EXCEPT ![p] = "sent"]
  /\ IF good THEN Redeem(p, "prompt") ELSE Refuse(p, "prompt")
  /\ UNCHANGED <<ways, files, pc, cached, token, posts, ages>>

MutPromptCancelled(p) == pc[p] = "closing" /\ prompt[p] = "reading" /\ UNCHANGED vars

\* The context is cancelled: promptForValue returns, and the goroutine says so.
PromptCancelled(p) ==
  /\ pc[p] = "closing" /\ prompt[p] = "reading"
  /\ prompt' = [prompt EXCEPT ![p] = "sent"]
  /\ Refuse(p, "prompt")
  /\ UNCHANGED <<ways, files, pc, cached, token, posts, ages>>

\* The select of webBrowserBasedAuth, which ends its wait for callbacks.
Receive(p) ==
  /\ pc[p] = "login" /\ channel[p] # <<>>
  /\ token' = [token EXCEPT ![p] = IF Head(channel[p]).ok THEN <<p, "login">> ELSE NoToken]
  /\ channel' = [channel EXCEPT ![p] = Tail(@)]
  /\ Goto(p, "closing")
  /\ UNCHANGED <<ways, files, cached, prompt, posts, provider, lost, ages>>

\* overallTimeout; and without a listener and a terminal there is nothing to wait for.
TimeOut(p) ==
  /\ pc[p] = "login" /\ "password" \notin ways
  /\ Goto(p, "closing")
  /\ UNCHANGED <<ways, files, cached, token, browser, provider, lost, ages>>

\* cleanupPrompt waits for the goroutine, whose message must be in the buffer.
MutCapacity == 1
Capacity == 2
PromptBlocked(p) ==
  \E i \in 1..Len(channel[p]) : i > Capacity /\ channel[p][i].from = "prompt"
PromptEnded(p) == prompt[p] # "reading" /\ ~PromptBlocked(p)

Close(p) ==
  /\ pc[p] = "closing" /\ PromptEnded(p)
  /\ IF token[p] = NoToken THEN End(p)
     ELSE /\ Goto(p, "put session")
          /\ channel' = [channel EXCEPT ![p] = <<>>]
          /\ prompt' = [prompt EXCEPT ![p] = "none"]
          /\ redeemed' = redeemed \ {p}
          /\ UNCHANGED <<cached, token>>
  /\ UNCHANGED <<ways, files, posts, live, lost, ages>>

\* tokenExchangeRFC8693 and the Concierge's TokenCredentialRequest.
Exchange(p, ok) ==
  /\ pc[p] = "exchange"
  /\ IF ok THEN Goto(p, "put credential") /\ UNCHANGED <<cached, token, channel, prompt, redeemed>>
     ELSE End(p)
  /\ UNCHANGED <<ways, files, posts, live, lost, ages>>

-----------------------------------------------------------------------------
(* The environment.                                                        *)

\* A process is killed, wherever it is; the kernel unlocks its file.
Die(p) ==
  /\ pc[p] # "over" /\ End(p) /\ Unlock(p)
  /\ IF p \in opened THEN UNCHANGED lost ELSE PutNothing(p)
  /\ UNCHANGED <<ways, state, session, credValid, posts, live, ages>>

\* Time passes: normalized drops what has expired when the file is read.  (That it
\* also drops an entry that nobody has used for 90 days is left out.)
Age ==
  /\ ages < MaxAge /\ ages' = ages + 1
  /\ \/ /\ session.id # "none" /\ holders = {}
        /\ session' = [session EXCEPT !.id = IF @ = "long" THEN "short" ELSE "none"]
        /\ UNCHANGED credValid
     \/ credValid /\ credValid' = FALSE /\ UNCHANGED session
  /\ UNCHANGED <<ways, state, holders, opened, pc, cached, token, browser, provider, lost>>

Work(p) ==
  \/ Missing(p) \/ Truncate(p) \/ LeaveUnwritten(p)
  \/ PromptCancelled(p) \/ Receive(p) \/ TimeOut(p) \/ Close(p)
  \/ \E ok \in BOOLEAN :
       \/ GetCredential(p, ok) \/ PutCredential(p, ok) \/ Enter(p, ok) \/ Leave(p, ok)
       \/ Discover(p, ok) \/ Refreshed(p, ok) \/ RefreshFails(p, ok) \/ Exchange(p, ok)

Finished == (\A p \in Processes : pc[p] = "over") /\ UNCHANGED vars

Next ==
  \/ \E p \in Processes : Work(p) \/ LockFails(p) \/ Die(p)
  \/ \E p \in Processes, good \in BOOLEAN :
       Callback(p, good) \/ Paste(p, good) \/ PasswordLogin(p, good)
  \/ Age \/ Finished

Spec == Init /\ [][Next]_vars

\* Answers, locks and the login in a browser have time-outs, so that a process goes
\* on.  The user is not fair, nor are the failures; a process that reads a password
\* waits for the user without a time-out.
FairSpec == Spec /\ \A p \in Processes : WF_vars(Work(p))

-----------------------------------------------------------------------------
(* Properties.                                                             *)

\* PutToken after handleRefresh: a refresh token in the session file that was used
\* already is about to be replaced by the process that used it, however the
\* processes' uses of the file interleave.  The exceptions are the tokens whose
\* replacement is lost: an answer of the provider did not arrive or was refused, a
\* code was redeemed twice, or PutToken failed or its process died before the file
\* was truncated.  A failed write or a death after that is no exception: the file
\* is torn, and nobody finds the used token.
CachedTokenIsLive ==
  \/ ReadSession.refresh \in live \cup {NoToken} \cup lost
  \/ \E p \in Processes : pc[p] = "put session" /\ cached[p].refresh = session.refresh

\* The callbacks that nobody has received.
Unreceived(p) == {i \in DOMAIN channel[p] : channel[p][i].from = "callback"}

\* promptForWebLogin's goroutine: whatever the order of callbacks, pasted codes, the
\* time-out and the cancellation, the send of its message blocks only behind two
\* callbacks that nobody has received.  Once the select has ended nobody ever will, so
\* that this is the one way in which cleanupPrompt can hang.
OnlyCallbacksBlock ==
  \A p \in Processes : PromptBlocked(p) => Cardinality(Unreceived(p)) >= 2

\* Login: every run of the command ends, with two exceptions.  Two callbacks that
\* nobody will receive fill the channel, so that the prompt's goroutine cannot send
\* its message and cleanupPrompt waits for it forever.  And cliBasedAuth waits for a
\* password as long as the user takes.
LoginsEnd ==
  \A p \in Processes :
    \/ <>(pc[p] = "over" \/ Cardinality(Unreceived(p)) >= 2)
    \/ <>[](pc[p] = "login" /\ "password" \in ways)
-----------------------------------------------------------------------------
(* The inductive invariant.                                                *)

\* The tokens that the provider gives to a process, which nobody else has seen before the
\* process is past PutToken.
MadeFor(p) == {<<p, "refresh">>, <<p, "login">>}
Past == {"exchange", "put credential", "over"}

\* A user logs in with a password, or in one of the other ways.
WaysOK == "password" \in ways => ways = {"password"} /\ \A p \in Processes : channel[p] = <<>> /\ prompt[p] = "none"

\* One process at a time has the session file, and it is torn while one writes it.
LockOK == (\A p, q \in holders : p = q) /\ (opened # {} => state = "torn")

\* A process has a new token between the answer of the provider and PutToken.
TokenOK ==
  \A p \in Processes :
    /\ token[p] # NoToken => token[p] \in MadeFor(p) /\ pc[p] \in {"closing", "put session"}
    /\ channel[p] # <<>> => pc[p] \in {"login", "closing"}

UnseenOK ==
  \A p \in Processes : pc[p] \notin Past =>
    session.refresh \notin MadeFor(p) /\ \A q \in Processes : cached[q].refresh \notin MadeFor(p)

\* What may be in a cache whoever is at work: of use, or lost.
Sound == live \cup {NoToken} \cup lost

\* Nobody but its process can use a new token.
NewTokenOK ==
  \A p \in Processes :
    /\ token[p] \in Sound
    /\ \A i \in 1..Len(channel[p]) : channel[p][i].ok => <<p, "login">> \in Sound

\* A token is of use, or the process that used it is about to replace it.
Replaced(t) == t \in Sound \/ \E p \in Processes : pc[p] = "put session" /\ cached[p].refresh = t

\* So it is with the token in the file, and with the one that GetToken is about to write back.
CacheOK ==
  /\ state = "whole" => Replaced(session.refresh)
  /\ \A p \in holders : pc[p] = "get session" => Replaced(cached[p].refresh)

\* The prompt's goroutine sends one message, and then it is done reading.
PromptOK ==
  \A p \in Processes : \A i, j \in 1..Len(channel[p]) :
    /\ channel[p][i].from = "prompt" => prompt[p] = "sent"
    /\ channel[p][i].from = "prompt" /\ channel[p][j].from = "prompt" => i = j

Inv == TypeOK /\ WaysOK /\ LockOK /\ TokenOK /\ UnseenOK /\ NewTokenOK /\ CacheOK
=============================================================================
