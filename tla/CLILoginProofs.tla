--------------------------- MODULE CLILoginProofs ---------------------------
(***************************************************************************)
(* Proofs about CLILogin, for any number of processes, callbacks and       *)
(* changes of time.  Inv is about the refresh tokens, PromptOK about the   *)
(* messages of the prompt's goroutine.                                     *)
(***************************************************************************)
EXTENDS CLILogin, FiniteSetTheorems, TLAPS

\* The provers of a leaf that names none, with time to spare on a busy machine.
USE SMTT(30), ZenonT(60)

-----------------------------------------------------------------------------
(* Types.                                                                  *)

\* No two processes get the same token, and none gets the one from before.
LEMMA TokensDiffer ==
  /\ \A p \in Processes : MadeFor(p) \subseteq Tokens /\ NoToken \notin MadeFor(p) /\ First \notin MadeFor(p)
  /\ \A p, q \in Processes : p # q => MadeFor(p) \cap MadeFor(q) = {}
  /\ NoToken \notin Tokens
<1>1. NoToken \notin Tokens
  BY NamesAssumption DEF Tokens
<1>2. ASSUME NEW p \in Processes
      PROVE  MadeFor(p) \subseteq Tokens /\ NoToken \notin MadeFor(p) /\ First \notin MadeFor(p)
  BY NamesAssumption DEF MadeFor, Tokens
<1>3. ASSUME NEW p \in Processes, NEW q \in Processes, p # q
      PROVE  MadeFor(p) \cap MadeFor(q) = {}
  BY <1>3 DEF MadeFor
<1> QED
  BY <1>1, <1>2, <1>3

\* What a session is.
LEMMA SessionTyped ==
  /\ NoSession \in Sessions /\ NoSession.refresh = NoToken
  /\ \A s \in Sessions : s.refresh \in Tokens \cup {NoToken}
  /\ \A i \in Validity, t \in Tokens \cup {NoToken} :
       [id |-> i, refresh |-> t] \in Sessions /\ [id |-> i, refresh |-> t].refresh = t
  BY DEF NoSession, Sessions, Validity

\* The end of a command.
LEMMA EndIs ==
  ASSUME TypeOK, NEW p \in Processes, End(p)
  PROVE  /\ pc' \in [Processes -> Places] /\ cached' \in [Processes -> Sessions]
         /\ token' \in [Processes -> Tokens \cup {NoToken}] /\ channel' \in [Processes -> Seq(Messages)]
         /\ prompt' \in [Processes -> {"none", "reading", "sent"}] /\ redeemed' \subseteq Processes
         /\ pc'[p] = "over" /\ cached'[p] = NoSession /\ token'[p] = NoToken /\ channel'[p] = <<>>
         /\ \A q \in Processes \ {p} :
              pc'[q] = pc[q] /\ cached'[q] = cached[q] /\ token'[q] = token[q] /\ channel'[q] = channel[q]
<1>1. pc' \in [Processes -> Places] /\ pc'[p] = "over" /\ \A q \in Processes \ {p} : pc'[q] = pc[q]
  BY ZenonT(60) DEF End, Goto, TypeOK, Places
<1>2. /\ cached' \in [Processes -> Sessions] /\ cached'[p] = NoSession
      /\ \A q \in Processes \ {p} : cached'[q] = cached[q]
  BY SessionTyped DEF End, TypeOK
<1>3. /\ token' \in [Processes -> Tokens \cup {NoToken}] /\ token'[p] = NoToken
      /\ \A q \in Processes \ {p} : token'[q] = token[q]
  BY DEF End, TypeOK
<1>4. /\ channel' \in [Processes -> Seq(Messages)] /\ channel'[p] = <<>>
      /\ \A q \in Processes \ {p} : channel'[q] = channel[q]
  BY DEF End, TypeOK
<1>5. prompt' \in [Processes -> {"none", "reading", "sent"}] /\ redeemed' \subseteq Processes
  BY DEF End, TypeOK
<1> QED
  BY <1>1, <1>2, <1>3, <1>4, <1>5

\* What baseLogin has after GetToken or PutToken.
LEMMA AfterUseIs ==
  ASSUME TypeOK, NEW p \in Processes, NEW found \in Sessions, AfterUse(p, found)
  PROVE  /\ pc' \in [Processes -> Places] /\ cached' \in [Processes -> Sessions]
         /\ token' \in [Processes -> Tokens \cup {NoToken}]
         /\ pc'[p] \in {"exchange", "discover"} /\ (pc[p] = "put session" => pc'[p] = "exchange")
         /\ cached'[p] \in {NoSession, found} /\ token'[p] = NoToken
         /\ \A q \in Processes \ {p} : pc'[q] = pc[q] /\ cached'[q] = cached[q] /\ token'[q] = token[q]
<1> DEFINE ends == pc[p] = "put session" \/ found.id = "long"
<1>1. /\ pc' \in [Processes -> Places] /\ pc'[p] = (IF ends THEN "exchange" ELSE "discover")
      /\ \A q \in Processes \ {p} : pc'[q] = pc[q]
  BY ZenonT(60) DEF AfterUse, Goto, TypeOK, Places
<1>2. /\ cached' \in [Processes -> Sessions] /\ cached'[p] \in {NoSession, found}
      /\ \A q \in Processes \ {p} : cached'[q] = cached[q]
  BY SessionTyped, ZenonT(60) DEF AfterUse, TypeOK
<1>3. /\ token' \in [Processes -> Tokens \cup {NoToken}] /\ token'[p] = NoToken
      /\ \A q \in Processes \ {p} : token'[q] = token[q]
  BY ZenonT(60) DEF AfterUse, TypeOK
<1> QED
  BY <1>1, <1>2, <1>3, ZenonT(60)

\* A message, and what is left when it is received.
LEMMA ChannelTyped ==
  ASSUME NEW c \in Seq(Messages)
  PROVE  /\ \A m \in Messages :
              /\ Append(c, m) \in Seq(Messages) /\ Append(c, m) # <<>>
              /\ \A i \in 1..Len(Append(c, m)) : Append(c, m)[i] = m \/ \E j \in 1..Len(c) : Append(c, m)[i] = c[j]
         /\ c # <<>> =>
              /\ Tail(c) \in Seq(Messages) /\ Head(c) = c[1] /\ 1 \in 1..Len(c)
              /\ \A i \in 1..Len(Tail(c)) : \E j \in 1..Len(c) : Tail(c)[i] = c[j]
<1>1. ASSUME NEW m \in Messages
      PROVE  /\ Append(c, m) \in Seq(Messages) /\ Append(c, m) # <<>>
             /\ \A i \in 1..Len(Append(c, m)) : Append(c, m)[i] = m \/ \E j \in 1..Len(c) : Append(c, m)[i] = c[j]
  OBVIOUS
<1>2. ASSUME c # <<>>
      PROVE  /\ Tail(c) \in Seq(Messages) /\ Head(c) = c[1] /\ 1 \in 1..Len(c)
             /\ \A i \in 1..Len(Tail(c)) : \E j \in 1..Len(c) : Tail(c)[i] = c[j]
  <2>1. Tail(c) \in Seq(Messages) /\ Head(c) = c[1] /\ 1 \in 1..Len(c) /\ Len(Tail(c)) = Len(c) - 1 /\ Len(c) \in Nat
    BY <1>2
  <2>2. ASSUME NEW i \in 1..Len(Tail(c)) PROVE \E j \in 1..Len(c) : Tail(c)[i] = c[j]
    <3>1. Tail(c)[i] = c[i + 1] /\ i + 1 \in 1..Len(c)
      BY <1>2, <2>1
    <3> QED
      BY <3>1
  <2> QED
    BY <2>1, <2>2
<1> QED
  BY <1>1, <1>2, ZenonT(60)


-----------------------------------------------------------------------------
(* What a step of one process leaves alone.                                *)

\* There is a message about tokens.
Good(c) == \E i \in 1..Len(c) : c[i].ok

\* Only process p moves.
Only(p) ==
  \A q \in Processes \ {p} :
    pc'[q] = pc[q] /\ cached'[q] = cached[q] /\ token'[q] = token[q] /\ channel'[q] = channel[q]

\* A new token is with its process, and the messages are those of a process that waits.
LEMMA TokenStep ==
  ASSUME TokenOK, NEW p \in Processes, Only(p),
         token'[p] # NoToken => token'[p] \in MadeFor(p) /\ pc'[p] \in {"closing", "put session"},
         channel'[p] # <<>> => pc'[p] \in {"login", "closing"}
  PROVE  TokenOK'
  BY ZenonT(60) DEF TokenOK, Only, MadeFor

\* Nobody comes to see a token of a process that is not past PutToken.
LEMMA UnseenStep ==
  ASSUME TypeOK, UnseenOK, NEW p \in Processes, Only(p), pc[p] \in Past => pc'[p] \in Past,
         \/ session'.refresh \in {NoToken, session.refresh, cached[p].refresh}
         \/ session'.refresh \in MadeFor(p) /\ pc'[p] \in Past,
         cached'[p].refresh \in {NoToken, session.refresh, cached[p].refresh}
  PROVE  UnseenOK'
<1> SUFFICES ASSUME NEW q \in Processes, pc'[q] \notin Past
             PROVE  /\ session'.refresh \notin MadeFor(q)
                    /\ \A r \in Processes : cached'[r].refresh \notin MadeFor(q)
  BY DEF UnseenOK, MadeFor
<1>1. pc[q] \notin Past
  BY DEF Only
<1>2. session.refresh \notin MadeFor(q) /\ \A r \in Processes : cached[r].refresh \notin MadeFor(q)
  BY <1>1 DEF UnseenOK
<1>3. session'.refresh \notin MadeFor(q)
  BY <1>2, TokensDiffer
<1>4. cached'[p].refresh \notin MadeFor(q)
  BY <1>2, TokensDiffer
<1> QED
  BY <1>2, <1>3, <1>4 DEF Only

\* A step of p that uses up at most the token that p has read leaves the new tokens of others.
LEMMA NewTokenStep ==
  ASSUME TypeOK, TokenOK, UnseenOK, NewTokenOK, NEW p \in Processes, Only(p),
         \A t \in Sound \ Sound' : t = cached[p].refresh,
         token'[p] \in Sound',
         Good(channel'[p]) => <<p, "login">> \in Sound'
  PROVE  NewTokenOK'
<1>0. NoToken \in Sound /\ NoToken \in Sound'
  BY ZenonT(60) DEF Sound
<1> SUFFICES ASSUME NEW q \in Processes
             PROVE  /\ token'[q] \in Sound'
                    /\ \A i \in 1..Len(channel'[q]) : channel'[q][i].ok => <<q, "login">> \in Sound'
  BY DEF NewTokenOK
<1>1. CASE q = p
  BY <1>1 DEF Good
<1>2. CASE q # p
  <2>1. /\ token'[q] = token[q] /\ channel'[q] = channel[q] /\ token[q] \in Sound
        /\ \A i \in 1..Len(channel[q]) : channel[q][i].ok => <<q, "login">> \in Sound
    BY <1>2 DEF Only, NewTokenOK
  <2>2. token[q] # NoToken => cached[p].refresh # token[q]
    BY ZenonT(60) DEF TokenOK, UnseenOK, Past
  <2>3. token'[q] \in Sound'
    BY <1>0, <2>1, <2>2, ZenonT(60)
  <2>4. ASSUME NEW i \in 1..Len(channel[q]), channel[q][i].ok PROVE <<q, "login">> \in Sound'
    <3>1. channel[q] # <<>>
      BY DEF TypeOK
    <3>2. cached[p].refresh # <<q, "login">>
      BY <3>1, ZenonT(60) DEF TokenOK, UnseenOK, Past, MadeFor
    <3> QED
      BY <2>1, <2>4, <3>2, ZenonT(60)
  <2> QED
    BY <2>1, <2>3, <2>4, ZenonT(60)
<1> QED
  BY <1>1, <1>2

\* A token that p uses up is one that p is about to replace.
LEMMA ReplacedStays ==
  ASSUME NEW p \in Processes, Only(p),
         pc[p] = "put session" => cached[p].refresh \in Sound' \/ (pc'[p] = pc[p] /\ cached'[p] = cached[p]),
         \A u \in Sound \ Sound' : u = cached[p].refresh /\ pc'[p] = "put session" /\ cached'[p] = cached[p],
         NEW t, Replaced(t)
  PROVE  t \in Sound' \/ \E q \in Processes : pc'[q] = "put session" /\ cached'[q].refresh = t
<1>1. CASE t \in Sound
  BY <1>1, ZenonT(60)
<1>2. ASSUME NEW q \in Processes, pc[q] = "put session", cached[q].refresh = t
      PROVE  t \in Sound' \/ (pc'[q] = "put session" /\ cached'[q].refresh = t)
  BY <1>2, ZenonT(60) DEF Only
<1> QED
  BY <1>1, <1>2, ZenonT(60) DEF Replaced

\* A step of a process that does not use the session file.
LEMMA Elsewhere ==
  ASSUME Inv, NEW p \in Processes, Only(p), pc[p] \notin Using, UNCHANGED <<state, session, holders, opened>>,
         pc[p] \in Past => pc'[p] \in Past, cached'[p] \in {NoSession, cached[p]},
         token'[p] # NoToken => token'[p] \in MadeFor(p) /\ pc'[p] \in {"closing", "put session"},
         channel'[p] # <<>> => pc'[p] \in {"login", "closing"},
         \A u \in Sound \ Sound' : u = cached[p].refresh /\ pc'[p] = "put session" /\ cached'[p] = cached[p],
         token'[p] \in Sound',
         Good(channel'[p]) => <<p, "login">> \in Sound'
  PROVE  LockOK' /\ TokenOK' /\ UnseenOK' /\ NewTokenOK' /\ CacheOK'
<1>1. TypeOK /\ LockOK /\ TokenOK /\ UnseenOK /\ NewTokenOK /\ CacheOK
  BY ZenonT(60) DEF Inv
<1>2. LockOK'
  BY <1>1, ZenonT(60) DEF LockOK
<1>3. TokenOK'
  BY <1>1, TokenStep, ZenonT(60)
<1>4. UnseenOK'
  <2>1. session'.refresh = session.refresh /\ cached'[p].refresh \in {NoToken, session.refresh, cached[p].refresh}
    BY SessionTyped, ZenonT(60)
  <2> QED
    BY <1>1, <2>1, UnseenStep, ZenonT(60)
<1>5. NewTokenOK'
  BY <1>1, NewTokenStep, ZenonT(60)
<1>6. CacheOK'
  <2> SUFFICES /\ state = "whole" => Replaced(session.refresh)'
               /\ \A q \in holders : pc'[q] = "get session" => Replaced(cached[q].refresh)'
    BY ZenonT(60) DEF CacheOK, Replaced
  <2>1. ASSUME NEW t, Replaced(t)
        PROVE  t \in Sound' \/ \E q \in Processes : pc'[q] = "put session" /\ cached'[q].refresh = t
    BY <2>1, ReplacedStays, ZenonT(60) DEF Using
  <2>2. state = "whole" => Replaced(session.refresh)'
    BY <1>1, <2>1, ZenonT(60) DEF CacheOK, Replaced
  <2>3. ASSUME NEW q \in holders, pc'[q] = "get session" PROVE Replaced(cached[q].refresh)'
    <3>1. q \in Processes \ {p} /\ pc[q] = "get session" /\ cached'[q] = cached[q]
      BY <1>1, <2>3, ZenonT(60) DEF TypeOK, Only
    <3>2. Replaced(cached[q].refresh)
      BY <1>1, <3>1, ZenonT(60) DEF CacheOK
    <3>3. \/ cached[q].refresh \in Sound'
          \/ \E u \in Processes : pc'[u] = "put session" /\ cached'[u].refresh = cached[q].refresh
      BY <2>1, <3>2, ZenonT(60)
    <3> QED
      BY <3>1, <3>3, ZenonT(60) DEF Replaced
  <2> QED
    BY <2>2, <2>3, ZenonT(60)
<1> QED
  BY <1>2, <1>3, <1>4, <1>5, <1>6, ZenonT(60)


\* One that has no new token, and no message about one.
LEMMA ElsewhereSimple ==
  ASSUME Inv, NEW p \in Processes, Only(p), pc[p] \notin Using, UNCHANGED <<state, session, holders, opened>>,
         pc[p] \in Past => pc'[p] \in Past, cached'[p] \in {NoSession, cached[p]},
         token'[p] = NoToken, channel'[p] = <<>>, Sound \subseteq Sound'
  PROVE  LockOK' /\ TokenOK' /\ UnseenOK' /\ NewTokenOK' /\ CacheOK'
<1>1. ~Good(channel'[p])
  BY DEF Good
<1>2. token'[p] \in Sound'
  BY ZenonT(60) DEF Sound
<1>3. \A u \in Sound \ Sound' : u = cached[p].refresh /\ pc'[p] = "put session" /\ cached'[p] = cached[p]
  BY ZenonT(60)
<1> QED
  BY <1>1, <1>2, <1>3, Elsewhere, ZenonT(60)

\* The tokens when the provider and PutToken do nothing.
LEMMA SoundStays ==
  ASSUME UNCHANGED <<live, lost>>
  PROVE  Sound' = Sound
  BY ZenonT(60) DEF Sound

\* The types after such a step.
LEMMA ElsewhereTyped ==
  ASSUME TypeOK, NEW p \in Processes, Only(p), pc[p] \notin Using, UNCHANGED <<ways, state, session, holders, opened, ages>>,
         pc' \in [Processes -> Places], cached' \in [Processes -> Sessions],
         token' \in [Processes -> Tokens \cup {NoToken}], channel' \in [Processes -> Seq(Messages)],
         prompt' \in [Processes -> {"none", "reading", "sent"}], posts' \in 0..MaxPosts,
         live' \subseteq Tokens, redeemed' \subseteq Processes, lost' \subseteq Tokens \cup {NoToken}, credValid' \in BOOLEAN
  PROVE  TypeOK'
<1>1. holders \subseteq {q \in Processes : pc'[q] \in Using}
  BY ZenonT(60) DEF TypeOK, Only
<1> QED
  BY <1>1 DEF TypeOK

\* The ways of the login stay as they are, and with a password there is nothing to wait for.
LEMMA WaysNext ==
  ASSUME TypeOK, WaysOK, Next
  PROVE  WaysOK'
<1> DEFINE Quiet == \A q \in Processes : channel'[q] = <<>> /\ prompt'[q] = "none"
<1>1. SUFFICES ways' = ways /\ ("password" \in ways => Quiet)
  BY <1>1 DEF WaysOK
<1>2. ASSUME "password" \in ways
      PROVE  /\ "callback" \notin ways /\ "prompt" \notin ways
             /\ \A q \in Processes : channel[q] = <<>> /\ prompt[q] = "none"
             /\ DOMAIN channel = Processes /\ DOMAIN prompt = Processes
  BY <1>2 DEF WaysOK, TypeOK
<1>3. UNCHANGED <<channel, prompt>> => ("password" \in ways => Quiet)
  BY <1>2
<1>4. ASSUME NEW p \in Processes, End(p) PROVE "password" \in ways => Quiet
  BY <1>2, <1>4 DEF End
<1>5. ASSUME NEW p \in Processes, StartLogin(p), UNCHANGED channel PROVE "password" \in ways => Quiet
  BY <1>2, <1>5 DEF StartLogin
<1> HIDE DEF Quiet
<1>6. ASSUME NEW p \in Processes, Missing(p) \/ Truncate(p) \/ LeaveUnwritten(p) \/ TimeOut(p) \/ LockFails(p)
      PROVE  ways' = ways /\ ("password" \in ways => Quiet)
  BY <1>3, <1>6, ZenonT(60) DEF Missing, Truncate, LeaveUnwritten, TimeOut, LockFails, browser
<1>7. ASSUME NEW p \in Processes, PromptCancelled(p) \/ Receive(p)
      PROVE  ways' = ways /\ ("password" \in ways => Quiet)
  BY <1>2, <1>7 DEF PromptCancelled, Receive
<1>8. ASSUME NEW p \in Processes, Close(p) PROVE ways' = ways /\ ("password" \in ways => Quiet)
  <2>1. CASE End(p)
    BY <1>4, <1>8, <2>1, ZenonT(60) DEF Close
  <2>2. CASE ~End(p)
    <3>1. ways' = ways /\ channel' = [channel EXCEPT ![p] = <<>>] /\ prompt' = [prompt EXCEPT ![p] = "none"]
      BY <1>8, <2>2, ZenonT(60) DEF Close
    <3> QED
      BY <1>2, <3>1 DEF Quiet
  <2> QED
    BY <2>1, <2>2
<1>9. ASSUME NEW p \in Processes, NEW ok \in BOOLEAN,
             GetCredential(p, ok) \/ PutCredential(p, ok) \/ Enter(p, ok) \/ Leave(p, ok) \/ Exchange(p, ok)
             \/ PasswordLogin(p, ok)
      PROVE  ways' = ways /\ ("password" \in ways => Quiet)
  BY <1>3, <1>4, <1>9, ZenonT(60) DEF GetCredential, PutCredential, Enter, Leave, Exchange, PasswordLogin,
                            browser
<1>10. ASSUME NEW p \in Processes, NEW ok \in BOOLEAN, Discover(p, ok) \/ Refreshed(p, ok) \/ RefreshFails(p, ok)
       PROVE  ways' = ways /\ ("password" \in ways => Quiet)
  BY <1>3, <1>4, <1>5, <1>10, ZenonT(60) DEF Discover, Refreshed, RefreshFails
<1>11. ASSUME NEW p \in Processes, NEW good \in BOOLEAN, Callback(p, good) \/ Paste(p, good)
       PROVE  ways' = ways /\ ("password" \in ways => Quiet)
  BY <1>2, <1>11 DEF Callback, Paste
<1>12. ASSUME NEW p \in Processes, Die(p) PROVE ways' = ways /\ ("password" \in ways => Quiet)
  BY <1>4, <1>12, ZenonT(60) DEF Die
<1>13. ASSUME Age \/ Finished PROVE ways' = ways /\ ("password" \in ways => Quiet)
  BY <1>3, <1>13, ZenonT(60) DEF Age, Finished, vars, browser
<1> QED
  BY <1>6, <1>7, <1>8, <1>9, <1>10, <1>11, <1>12, <1>13, ZenonT(60) DEF Next, Work

-----------------------------------------------------------------------------
(* The steps of a process that has not come to the session file, or is     *)
(* past it.                                                                *)

\* GetCredential, PutCredential, Exchange, and a Discover that fails: nothing or the end.
LEMMA CredentialStep ==
  ASSUME Inv, WaysOK', NEW p \in Processes, NEW ok \in BOOLEAN,
         GetCredential(p, ok) \/ PutCredential(p, ok) \/ Exchange(p, ok)
  PROVE  Inv'
<1>0. TypeOK /\ TokenOK /\ NewTokenOK
  BY DEF Inv
<1>1. /\ pc[p] \in {"get credential", "put credential", "exchange"}
      /\ UNCHANGED <<ways, state, session, holders, opened, posts, live, lost, ages>> /\ credValid' \in BOOLEAN
      /\ Sound \subseteq Sound'
  BY <1>0, SoundStays, ZenonT(60) DEF GetCredential, PutCredential, Exchange, files, TypeOK
<1>2. \/ End(p)
      \/ /\ UNCHANGED <<cached, token, channel, prompt, redeemed>>
         /\ \/ pc[p] = "get credential" /\ Goto(p, "get session")
            \/ pc[p] = "exchange" /\ Goto(p, "put credential")
  BY ZenonT(60) DEF GetCredential, PutCredential, Exchange
<1>3. CASE End(p)
  <2>1. Only(p) /\ pc'[p] = "over" /\ cached'[p] = NoSession /\ token'[p] = NoToken /\ channel'[p] = <<>>
    BY <1>0, <1>3, EndIs DEF Only
  <2>2. TypeOK'
    BY <1>0, <1>1, <1>3, <2>1, EndIs, ElsewhereTyped, ZenonT(60) DEF TypeOK, Using
  <2>3. LockOK' /\ TokenOK' /\ UnseenOK' /\ NewTokenOK' /\ CacheOK'
    BY <1>1, <2>1, ElsewhereSimple, ZenonT(60) DEF Using, Past
  <2> QED
    BY <2>2, <2>3 DEF Inv
<1>4. CASE /\ UNCHANGED <<cached, token, channel, prompt, redeemed>>
           /\ \/ pc[p] = "get credential" /\ Goto(p, "get session")
              \/ pc[p] = "exchange" /\ Goto(p, "put credential")
  <2>1. /\ Only(p) /\ pc' \in [Processes -> Places]
        /\ \/ pc[p] = "get credential" /\ pc'[p] = "get session"
           \/ pc[p] = "exchange" /\ pc'[p] = "put credential"
    BY <1>0, <1>4, ZenonT(60) DEF Goto, TypeOK, Only, Places, Using
  <2>2. TypeOK'
    BY <1>0, <1>1, <1>4, <2>1, ElsewhereTyped, ZenonT(60) DEF TypeOK, Using
  <2>3. token[p] = NoToken /\ channel[p] = <<>>
    BY <1>0, <1>1, ZenonT(60) DEF TokenOK
  <2>4. LockOK' /\ TokenOK' /\ UnseenOK' /\ NewTokenOK' /\ CacheOK'
    BY <1>1, <1>4, <2>1, <2>3, ElsewhereSimple, ZenonT(60) DEF Using, Past
  <2> QED
    BY <2>2, <2>4 DEF Inv
<1> QED
  BY <1>2, <1>3, <1>4, ZenonT(60)

\* Discovery, and the refresh with the token that was read.
LEMMA RefreshStep ==
  ASSUME Inv, WaysOK', NEW p \in Processes, NEW ok \in BOOLEAN, Discover(p, ok) \/ Refreshed(p, ok) \/ RefreshFails(p, ok)
  PROVE  Inv'
<1>0. TypeOK /\ TokenOK /\ NewTokenOK
  BY DEF Inv
<1>1. /\ pc[p] \in {"discover", "refresh"} /\ pc[p] \notin Using /\ pc[p] \notin Past
      /\ UNCHANGED <<ways, state, session, holders, opened, credValid, posts, ages>>
  BY ZenonT(60) DEF Discover, Refreshed, RefreshFails, files, Using, Past
<1>2. token[p] = NoToken /\ channel[p] = <<>>
  BY <1>0, <1>1, ZenonT(60) DEF TokenOK
<1>3. <<p, "refresh">> \in Tokens /\ <<p, "refresh">> \in MadeFor(p) /\ live \subseteq Tokens
  BY <1>0 DEF Tokens, MadeFor, TypeOK
<1>4. lost' \subseteq Tokens \cup {NoToken} /\ live' \subseteq Tokens
  <2>1. lost \subseteq Tokens \cup {NoToken} /\ cached[p].refresh \in Tokens \cup {NoToken}
    BY <1>0, SessionTyped DEF TypeOK
  <2>2. CASE Discover(p, ok)
    BY <1>3, <2>1, <2>2, ZenonT(60) DEF Discover
  <2>3. CASE Refreshed(p, ok)
    BY <1>3, <2>1, <2>3, ZenonT(60) DEF Refreshed, Rotate
  <2>4. CASE RefreshFails(p, ok)
    BY <1>3, <2>1, <2>4, ZenonT(60) DEF RefreshFails, Rotate
  <2> QED
    BY <2>2, <2>3, <2>4, ZenonT(60)
<1>5. CASE End(p) /\ Sound \subseteq Sound'
  <2>1. Only(p) /\ pc'[p] = "over" /\ cached'[p] = NoSession /\ token'[p] = NoToken /\ channel'[p] = <<>>
    BY <1>0, <1>5, EndIs DEF Only
  <2>2. TypeOK'
    BY <1>0, <1>1, <1>4, <1>5, <2>1, EndIs, ElsewhereTyped, ZenonT(60) DEF TypeOK
  <2>3. LockOK' /\ TokenOK' /\ UnseenOK' /\ NewTokenOK' /\ CacheOK'
    BY <1>1, <1>4, <1>5, <2>1, ElsewhereSimple, ZenonT(60)
  <2> QED
    BY <2>2, <2>3 DEF Inv
<1>6. CASE /\ StartLogin(p) /\ UNCHANGED <<token, channel, redeemed>> /\ Sound \subseteq Sound'
  <2>1. /\ Only(p) /\ pc'[p] = "login" /\ cached'[p] = NoSession /\ pc' \in [Processes -> Places]
        /\ cached' \in [Processes -> Sessions] /\ prompt' \in [Processes -> {"none", "reading", "sent"}]
    BY <1>0, <1>6, SessionTyped, ZenonT(60) DEF StartLogin, Goto, Only, TypeOK, Places
  <2>2. TypeOK'
    BY <1>0, <1>1, <1>4, <1>6, <2>1, ElsewhereTyped, ZenonT(60) DEF TypeOK
  <2>3. LockOK' /\ TokenOK' /\ UnseenOK' /\ NewTokenOK' /\ CacheOK'
    BY <1>1, <1>2, <1>4, <1>6, <2>1, ElsewhereSimple, ZenonT(60)
  <2> QED
    BY <2>2, <2>3 DEF Inv
<1>7. CASE /\ Goto(p, "refresh") /\ UNCHANGED <<cached, prompt, token, channel, redeemed, live, lost>>
  <2>1. Only(p) /\ pc'[p] = "refresh" /\ pc' \in [Processes -> Places]
    BY <1>0, <1>7, ZenonT(60) DEF Goto, Only, TypeOK, Places
  <2>2. TypeOK'
    BY <1>0, <1>1, <1>4, <1>7, <2>1, ElsewhereTyped, ZenonT(60) DEF TypeOK
  <2>3. LockOK' /\ TokenOK' /\ UnseenOK' /\ NewTokenOK' /\ CacheOK'
    BY <1>1, <1>2, <1>7, <2>1, SoundStays, ElsewhereSimple, ZenonT(60)
  <2> QED
    BY <2>2, <2>3 DEF Inv
<1>8. CASE /\ Goto(p, "put session") /\ token' = [token EXCEPT ![p] = <<p, "refresh">>] /\ Rotate(p)
           /\ UNCHANGED <<cached, channel, prompt, redeemed, lost>>
  <2>1. /\ Only(p) /\ pc'[p] = "put session" /\ pc' \in [Processes -> Places] /\ token'[p] = <<p, "refresh">>
        /\ token' \in [Processes -> Tokens \cup {NoToken}]
    BY <1>0, <1>3, <1>8, ZenonT(60) DEF Goto, Only, TypeOK, Places, Using
  <2>2. TypeOK'
    BY <1>0, <1>1, <1>4, <1>8, <2>1, ElsewhereTyped, ZenonT(60) DEF TypeOK
  <2>3. token'[p] \in Sound' /\ \A u \in Sound \ Sound' : u = cached[p].refresh
    BY <1>8, <2>1, ZenonT(60) DEF Rotate, Sound
  <2>4. LockOK' /\ TokenOK' /\ UnseenOK' /\ NewTokenOK' /\ CacheOK'
    <3>0. channel'[p] = <<>> /\ cached'[p] = cached[p]
      BY <1>2, <1>8, ZenonT(60)
    <3>1. ~Good(channel'[p])
      BY <3>0 DEF Good
    <3>2. \A u \in Sound \ Sound' : u = cached[p].refresh /\ pc'[p] = "put session" /\ cached'[p] = cached[p]
      BY <2>1, <2>3, <3>0, ZenonT(60)
    <3>3. token'[p] # NoToken => token'[p] \in MadeFor(p) /\ pc'[p] \in {"closing", "put session"}
      BY <1>3, <2>1, ZenonT(60)
    <3> QED
      BY <1>1, <2>1, <2>3, <3>0, <3>1, <3>2, <3>3, Elsewhere, ZenonT(60)
  <2> QED
    BY <2>2, <2>4 DEF Inv
<1>9. CASE Discover(p, ok)
  BY <1>5, <1>6, <1>7, <1>9, SoundStays, ZenonT(60) DEF Discover
<1>10. CASE Refreshed(p, ok)
  <2>1. CASE ok
    BY <1>8, <1>10, <2>1, ZenonT(60) DEF Refreshed
  <2>2. CASE ~ok
    <3>1. Sound \subseteq Sound'
      BY <1>10, <2>2, ZenonT(60) DEF Refreshed, Rotate, Sound
    <3> QED
      BY <1>5, <1>10, <2>2, <3>1, ZenonT(60) DEF Refreshed
  <2> QED
    BY <2>1, <2>2
<1>11. CASE RefreshFails(p, ok)
  <2>1. Sound \subseteq Sound'
    BY <1>11, ZenonT(60) DEF RefreshFails, Rotate, Sound
  <2> QED
    BY <1>6, <1>11, <2>1, ZenonT(60) DEF RefreshFails
<1> QED
  BY <1>9, <1>10, <1>11


-----------------------------------------------------------------------------
(* The login of the user.                                                  *)

\* A step of a process that logs in: the sound tokens become more.
LEMMA LoginKeeps ==
  ASSUME Inv, WaysOK', NEW p \in Processes, Only(p), pc[p] \in {"login", "closing"},
         UNCHANGED <<ways, state, session, holders, opened, credValid, ages, cached>>,
         pc' \in [Processes -> Places], token' \in [Processes -> Tokens \cup {NoToken}],
         channel' \in [Processes -> Seq(Messages)], prompt' \in [Processes -> {"none", "reading", "sent"}],
         posts' \in 0..MaxPosts, live' \subseteq Tokens, redeemed' \subseteq Processes, lost' \subseteq Tokens \cup {NoToken},
         token'[p] # NoToken => token'[p] \in MadeFor(p) /\ pc'[p] \in {"closing", "put session"},
         channel'[p] # <<>> => pc'[p] \in {"login", "closing"},
         Sound \subseteq Sound', token'[p] \in Sound',
         Good(channel'[p]) => <<p, "login">> \in Sound'
  PROVE  Inv'
<1>1. TypeOK
  BY ZenonT(60) DEF Inv
<1>2. pc[p] \notin Using /\ pc[p] \notin Past
  BY ZenonT(60) DEF Using, Past
<1>3. TypeOK'
  <2>1. cached' \in [Processes -> Sessions] /\ credValid' \in BOOLEAN
    BY <1>1, ZenonT(60) DEF TypeOK
  <2> QED
    BY <1>1, <1>2, <2>1, ElsewhereTyped, ZenonT(60)
<1>4. \A u \in Sound \ Sound' : u = cached[p].refresh /\ pc'[p] = "put session" /\ cached'[p] = cached[p]
  BY ZenonT(60)
<1>5. cached'[p] \in {NoSession, cached[p]}
  OBVIOUS
<1>6. LockOK' /\ TokenOK' /\ UnseenOK' /\ NewTokenOK' /\ CacheOK'
  BY <1>2, <1>4, <1>5, Elsewhere, ZenonT(60)
<1> QED
  BY <1>3, <1>6, ZenonT(60) DEF Inv

\* Or the login fails.
LEMMA LoginEnds ==
  ASSUME Inv, WaysOK', NEW p \in Processes, End(p), pc[p] \in {"login", "closing"},
         UNCHANGED <<ways, state, session, holders, opened, credValid, posts, live, lost, ages>>
  PROVE  Inv'
<1>1. TypeOK
  BY DEF Inv
<1>2. Only(p) /\ pc'[p] = "over" /\ cached'[p] = NoSession /\ token'[p] = NoToken /\ channel'[p] = <<>>
  BY <1>1, EndIs DEF Only
<1>3. pc[p] \notin Using /\ pc[p] \notin Past
  BY ZenonT(60) DEF Using, Past
<1>4. TypeOK'
  BY <1>1, <1>2, <1>3, EndIs, ElsewhereTyped, ZenonT(60) DEF TypeOK
<1>5. LockOK' /\ TokenOK' /\ UnseenOK' /\ NewTokenOK' /\ CacheOK'
  BY <1>2, <1>3, SoundStays, ElsewhereSimple, ZenonT(60)
<1> QED
  BY <1>4, <1>5 DEF Inv

\* What a process that logs in has.
LEMMA LoginHas ==
  ASSUME Inv, NEW p \in Processes
  PROVE  /\ <<p, "login">> \in Tokens /\ <<p, "login">> \in MadeFor(p) /\ <<p, "login">> # NoToken
         /\ token[p] # NoToken => token[p] \in MadeFor(p) /\ pc[p] \in {"closing", "put session"}
         /\ channel[p] # <<>> => pc[p] \in {"login", "closing"}
         /\ token[p] \in Sound /\ (Good(channel[p]) => <<p, "login">> \in Sound)
         /\ ~Good(<<>>)
<1>1. <<p, "login">> \in Tokens /\ <<p, "login">> \in MadeFor(p) /\ <<p, "login">> # NoToken
  BY TokensDiffer DEF Tokens, MadeFor
<1>2. token[p] \in Sound /\ (Good(channel[p]) => <<p, "login">> \in Sound)
  BY DEF Inv, NewTokenOK, Good
<1>3. ~Good(<<>>)
  BY DEF Good
<1>4. /\ token[p] # NoToken => token[p] \in MadeFor(p) /\ pc[p] \in {"closing", "put session"}
      /\ channel[p] # <<>> => pc[p] \in {"login", "closing"}
  BY ZenonT(60) DEF Inv, TokenOK
<1> QED
  BY <1>1, <1>2, <1>3, <1>4, ZenonT(60)

\* cliBasedAuth.
LEMMA PasswordStep ==
  ASSUME Inv, WaysOK', NEW p \in Processes, NEW ok \in BOOLEAN, PasswordLogin(p, ok)
  PROVE  Inv'
<1>0. TypeOK /\ pc[p] = "login" /\ UNCHANGED <<ways, state, session, holders, opened, credValid, posts, lost, ages>>
  BY ZenonT(60) DEF Inv, PasswordLogin, files
<1>1. CASE ~ok
  <2>1. End(p) /\ UNCHANGED live
    BY <1>1 DEF PasswordLogin
  <2> QED
    BY <1>0, <2>1, LoginEnds
<1>2. CASE ok
  <2>1. /\ pc' = [pc EXCEPT ![p] = "put session"] /\ token' = [token EXCEPT ![p] = <<p, "login">>]
        /\ live' = live \cup {<<p, "login">>} /\ UNCHANGED <<cached, channel, prompt, redeemed>>
    BY <1>2, ZenonT(60) DEF PasswordLogin, Goto
  <2>2. channel'[p] = <<>>
    BY <2>1, ZenonT(60) DEF Inv, WaysOK, PasswordLogin
  <2>3. ~Good(channel'[p])
    BY <2>2, LoginHas, ZenonT(60)
  <2>4. /\ Only(p) /\ pc' \in [Processes -> Places] /\ pc'[p] = "put session"
        /\ token' \in [Processes -> Tokens \cup {NoToken}] /\ token'[p] = <<p, "login">>
    BY <1>0, <2>1, LoginHas, ZenonT(60) DEF TypeOK, Only, Places, Using
  <2>5. /\ channel' \in [Processes -> Seq(Messages)] /\ prompt' \in [Processes -> {"none", "reading", "sent"}]
        /\ posts' \in 0..MaxPosts /\ live' \subseteq Tokens /\ redeemed' \subseteq Processes /\ lost' \subseteq Tokens \cup {NoToken}
    BY <1>0, <2>1, LoginHas, ZenonT(60) DEF TypeOK
  <2>6. token'[p] # NoToken => token'[p] \in MadeFor(p) /\ pc'[p] \in {"closing", "put session"}
    BY <2>4, LoginHas, ZenonT(60)
  <2>7. Sound \subseteq Sound' /\ token'[p] \in Sound'
    BY <1>0, <2>1, <2>4, ZenonT(60) DEF Sound
  <2> QED
    BY <1>0, <2>1, <2>2, <2>3, <2>4, <2>5, <2>6, <2>7, LoginKeeps, ZenonT(60)
<1> QED
  BY <1>1, <1>2


\* Redeem and Refuse: a message about tokens comes with tokens.
LEMMA MessageIs ==
  ASSUME Inv, NEW p \in Processes, NEW from \in {"callback", "prompt"}, Redeem(p, from) \/ Refuse(p, from)
  PROVE  /\ channel' \in [Processes -> Seq(Messages)] /\ \A q \in Processes \ {p} : channel'[q] = channel[q]
         /\ live' \subseteq Tokens /\ redeemed' \subseteq Processes /\ lost' \subseteq Tokens \cup {NoToken}
         /\ Sound \subseteq Sound' /\ (Good(channel'[p]) => <<p, "login">> \in Sound')
<1>0. /\ channel \in [Processes -> Seq(Messages)] /\ live \subseteq Tokens /\ redeemed \subseteq Processes
      /\ lost \subseteq Tokens \cup {NoToken} /\ channel[p] \in Seq(Messages)
  BY DEF Inv, TypeOK
<1>1. PICK ok \in BOOLEAN :
        /\ channel' = [channel EXCEPT ![p] = Append(@, [from |-> from, ok |-> ok])]
        /\ ok => p \notin redeemed /\ live' = live \cup {<<p, "login">>}
    BY ZenonT(60) DEF Redeem, Refuse, provider
<1> DEFINE m == [from |-> from, ok |-> ok]
<1>2. m \in Messages /\ m.ok = ok
  BY DEF Messages
<1>3. channel'[p] = Append(channel[p], m) /\ \A q \in Processes \ {p} : channel'[q] = channel[q]
  BY <1>0, <1>1
<1> HIDE DEF m
<1>4. channel' \in [Processes -> Seq(Messages)]
  <2>1. Append(channel[p], m) \in Seq(Messages)
    BY <1>0, <1>2, ChannelTyped
  <2> QED
    BY <1>0, <1>1, <2>1 DEF m
<1>5. live' \subseteq Tokens /\ redeemed' \subseteq Processes /\ lost' \subseteq Tokens \cup {NoToken}
  BY <1>0, LoginHas, ZenonT(60) DEF Redeem, Refuse, provider
<1>6. Sound \subseteq Sound'
  BY ZenonT(60) DEF Redeem, Refuse, provider, Sound
<1>7. Good(channel'[p]) => ok \/ Good(channel[p])
  <2> SUFFICES ASSUME NEW i \in 1..Len(Append(channel[p], m)), Append(channel[p], m)[i].ok
               PROVE  ok \/ Good(channel[p])
    BY <1>3 DEF Good
  <2>1. Append(channel[p], m)[i] = m \/ \E j \in 1..Len(channel[p]) : Append(channel[p], m)[i] = channel[p][j]
    BY <1>0, <1>2, ChannelTyped
  <2> QED
    BY <1>2, <2>1 DEF Good
<1>8. ASSUME Good(channel'[p]) PROVE <<p, "login">> \in Sound'
  <2>1. CASE ok
    BY <1>1, <2>1, ZenonT(60) DEF Sound
  <2>2. CASE Good(channel[p])
    BY <1>6, <2>2, LoginHas, ZenonT(60)
  <2> QED
    BY <1>7, <1>8, <2>1, <2>2
<1> QED
  BY <1>3, <1>4, <1>5, <1>6, <1>8

\* handleAuthCodeCallback, and the goroutine that prompts for a code.
LEMMA MessageStep ==
  ASSUME Inv, WaysOK', NEW p \in Processes, NEW good \in BOOLEAN,
         Callback(p, good) \/ Paste(p, good) \/ PromptCancelled(p)
  PROVE  Inv'
<1>0. TypeOK /\ pc[p] \in {"login", "closing"} /\ UNCHANGED <<ways, state, session, holders, opened, credValid, pc, cached, token, ages>>
  BY ZenonT(60) DEF Inv, Callback, Paste, PromptCancelled, files
<1>1. PICK from \in {"callback", "prompt"} : Redeem(p, from) \/ Refuse(p, from)
  BY ZenonT(60) DEF Callback, Paste, PromptCancelled
<1>2. /\ channel' \in [Processes -> Seq(Messages)] /\ \A q \in Processes \ {p} : channel'[q] = channel[q]
      /\ live' \subseteq Tokens /\ redeemed' \subseteq Processes /\ lost' \subseteq Tokens \cup {NoToken}
      /\ Sound \subseteq Sound' /\ (Good(channel'[p]) => <<p, "login">> \in Sound')
  BY <1>1, MessageIs
<1>3. prompt' \in [Processes -> {"none", "reading", "sent"}] /\ posts' \in 0..MaxPosts
  <2>1. prompt' = prompt \/ prompt' = [prompt EXCEPT ![p] = "sent"]
    BY ZenonT(60) DEF Callback, Paste, PromptCancelled
  <2>2. posts' = posts \/ (posts < MaxPosts /\ posts' = posts + 1)
    BY ZenonT(60) DEF Callback, Paste, PromptCancelled
  <2>3. prompt' \in [Processes -> {"none", "reading", "sent"}]
    BY <1>0, <2>1, ZenonT(60) DEF TypeOK
  <2>4. posts' \in 0..MaxPosts
    BY <1>0, <2>2, BoundAssumption DEF TypeOK
  <2> QED
    BY <2>3, <2>4
<1>4. /\ Only(p) /\ pc' \in [Processes -> Places] /\ token' \in [Processes -> Tokens \cup {NoToken}]
  BY <1>0, <1>2 DEF Only, TypeOK
<1>5. token'[p] # NoToken => token'[p] \in MadeFor(p) /\ pc'[p] \in {"closing", "put session"}
  BY <1>0, LoginHas, ZenonT(60)
<1>6. token'[p] \in Sound'
  BY <1>0, <1>2, LoginHas, ZenonT(60)
<1>7. channel'[p] # <<>> => pc'[p] \in {"login", "closing"}
  BY <1>0
<1> QED
  BY <1>0, <1>2, <1>3, <1>4, <1>5, <1>6, <1>7, LoginKeeps, ZenonT(60)

\* The select of webBrowserBasedAuth.
LEMMA ReceiveStep ==
  ASSUME Inv, WaysOK', NEW p \in Processes, Receive(p) \/ TimeOut(p)
  PROVE  Inv'
<1>0. /\ TypeOK /\ pc[p] = "login"
      /\ UNCHANGED <<ways, state, session, holders, opened, credValid, cached, prompt, posts, live, redeemed, lost, ages>>
      /\ pc' = [pc EXCEPT ![p] = "closing"]
  BY ZenonT(60) DEF Inv, Receive, TimeOut, files, browser, provider, Goto
<1>1. channel[p] \in Seq(Messages)
  BY <1>0 DEF TypeOK
<1>2. /\ channel' \in [Processes -> Seq(Messages)] /\ \A q \in Processes \ {p} : channel'[q] = channel[q]
      /\ Good(channel'[p]) => Good(channel[p])
  <2>1. CASE Receive(p)
    <3>1. channel[p] # <<>> /\ channel' = [channel EXCEPT ![p] = Tail(@)]
      BY <2>1 DEF Receive
    <3>2. Tail(channel[p]) \in Seq(Messages)
      BY <1>1, <3>1, ChannelTyped
    <3>3. /\ channel' \in [Processes -> Seq(Messages)] /\ channel'[p] = Tail(channel[p])
          /\ \A q \in Processes \ {p} : channel'[q] = channel[q]
      BY <1>0, <3>1, <3>2 DEF TypeOK
    <3>4. \A i \in 1..Len(Tail(channel[p])) : \E j \in 1..Len(channel[p]) : Tail(channel[p])[i] = channel[p][j]
      BY <1>1, <3>1, ChannelTyped
    <3> QED
      BY <3>3, <3>4 DEF Good
  <2>2. CASE TimeOut(p)
    BY <1>0, <2>2 DEF TimeOut, browser, TypeOK
  <2> QED
    BY <2>1, <2>2
<1>3. /\ token' \in [Processes -> Tokens \cup {NoToken}] /\ \A q \in Processes \ {p} : token'[q] = token[q]
      /\ token'[p] = NoToken \/ token'[p] = token[p] \/ (token'[p] = <<p, "login">> /\ Good(channel[p]))
  <2>1. CASE Receive(p)
    <3>1. Head(channel[p]) = channel[p][1] /\ 1 \in 1..Len(channel[p])
      BY <1>1, <2>1, ChannelTyped DEF Receive
    <3>2. Head(channel[p]).ok => Good(channel[p])
      BY <3>1, ZenonT(60) DEF Good
    <3> QED
      BY <1>0, <2>1, <3>2, LoginHas, ZenonT(60) DEF Receive, TypeOK
  <2>2. CASE TimeOut(p)
    BY <1>0, <2>2 DEF TimeOut, TypeOK
  <2> QED
    BY <2>1, <2>2
<1>4. Only(p) /\ pc' \in [Processes -> Places] /\ pc'[p] = "closing"
  BY <1>0, <1>2, <1>3, ZenonT(60) DEF Only, TypeOK, Places
<1>5. token'[p] # NoToken => token'[p] \in MadeFor(p) /\ pc'[p] \in {"closing", "put session"}
  BY <1>3, <1>4, LoginHas, ZenonT(60)
<1>6. Sound \subseteq Sound' /\ token'[p] \in Sound' /\ (Good(channel'[p]) => <<p, "login">> \in Sound')
  <2>1. Sound' = Sound /\ NoToken \in Sound
    BY <1>0, SoundStays, ZenonT(60) DEF Sound
  <2> QED
    BY <1>2, <1>3, <2>1, LoginHas, ZenonT(60)
<1>7. /\ prompt' \in [Processes -> {"none", "reading", "sent"}] /\ posts' \in 0..MaxPosts
      /\ live' \subseteq Tokens /\ redeemed' \subseteq Processes /\ lost' \subseteq Tokens \cup {NoToken}
  BY <1>0 DEF TypeOK
<1> QED
  BY <1>0, <1>2, <1>3, <1>4, <1>5, <1>6, <1>7, LoginKeeps, ZenonT(60)

\* cleanupPrompt, and what webBrowserBasedAuth returns.
LEMMA CloseStep ==
  ASSUME Inv, WaysOK', NEW p \in Processes, Close(p)
  PROVE  Inv'
<1>0. TypeOK /\ pc[p] = "closing" /\ UNCHANGED <<ways, state, session, holders, opened, credValid, posts, live, lost, ages>>
  BY ZenonT(60) DEF Inv, Close, files
<1>1. CASE End(p)
  BY <1>0, <1>1, LoginEnds
<1>2. CASE ~End(p)
  <2>1. /\ pc' = [pc EXCEPT ![p] = "put session"] /\ channel' = [channel EXCEPT ![p] = <<>>]
        /\ prompt' = [prompt EXCEPT ![p] = "none"] /\ redeemed' = redeemed \ {p} /\ UNCHANGED <<cached, token>>
    BY <1>2, ZenonT(60) DEF Close, Goto
  <2>2. /\ Only(p) /\ pc' \in [Processes -> Places] /\ pc'[p] = "put session" /\ channel'[p] = <<>>
        /\ channel' \in [Processes -> Seq(Messages)]
    <3>1. /\ channel' \in [Processes -> Seq(Messages)] /\ channel'[p] = <<>>
          /\ \A q \in Processes \ {p} : channel'[q] = channel[q]
      <4>1. channel \in [Processes -> Seq(Messages)] /\ channel' = [channel EXCEPT ![p] = <<>>]
        BY <1>0, <2>1, ZenonT(60) DEF TypeOK
      <4>2. <<>> \in Seq(Messages)
        OBVIOUS
      <4> QED
        BY <4>1, <4>2
    <3>2. pc' \in [Processes -> Places] /\ pc'[p] = "put session" /\ \A q \in Processes \ {p} : pc'[q] = pc[q]
      BY <1>0, <2>1, ZenonT(60) DEF TypeOK, Places, Using
    <3> QED
      BY <2>1, <3>1, <3>2, ZenonT(60) DEF Only
  <2>3. /\ prompt' \in [Processes -> {"none", "reading", "sent"}] /\ posts' \in 0..MaxPosts
        /\ live' \subseteq Tokens /\ redeemed' \subseteq Processes /\ lost' \subseteq Tokens \cup {NoToken}
        /\ token' \in [Processes -> Tokens \cup {NoToken}]
    BY <1>0, <2>1, ZenonT(60) DEF TypeOK
  <2>4. token'[p] # NoToken => token'[p] \in MadeFor(p) /\ pc'[p] \in {"closing", "put session"}
    BY <2>1, <2>2, LoginHas, ZenonT(60)
  <2>5. Sound \subseteq Sound' /\ token'[p] \in Sound' /\ ~Good(channel'[p])
    BY <1>0, <2>1, <2>2, SoundStays, LoginHas, ZenonT(60)
  <2> QED
    BY <1>0, <2>1, <2>2, <2>3, <2>4, <2>5, LoginKeeps, ZenonT(60)
<1> QED
  BY <1>1, <1>2


-----------------------------------------------------------------------------
(* The uses of the session file.                                           *)

\* A use of the file changes the file, who has locked it, and the place, what was read and the new
\* token of one process.  What is left to show is what is in the file, and what may be written back.
LEMMA FileStep ==
  ASSUME Inv, WaysOK', NEW p \in Processes, pc[p] \in Using, Only(p),
         UNCHANGED <<ways, credValid, channel, prompt, posts, live, redeemed, ages>>, Sound \subseteq Sound',
         pc' \in [Processes -> Places], cached' \in [Processes -> Sessions],
         token' \in [Processes -> Tokens \cup {NoToken}], session' \in Sessions,
         state' \in {"absent", "whole", "torn"}, lost' \subseteq Tokens \cup {NoToken},
         holders' \subseteq {q \in Processes : pc'[q] \in Using}, opened' \subseteq holders', LockOK',
         token'[p] = NoToken \/ (token'[p] = token[p] /\ pc'[p] = pc[p]),
         \/ session'.refresh \in {NoToken, session.refresh, cached[p].refresh}
         \/ session'.refresh \in MadeFor(p) /\ pc'[p] \in Past,
         cached'[p].refresh \in {NoToken, session.refresh, cached[p].refresh},
         CacheOK'
  PROVE  Inv'
<1>1. TypeOK /\ LockOK /\ TokenOK /\ UnseenOK /\ NewTokenOK
  BY ZenonT(60) DEF Inv
<1>2. TypeOK'
  BY <1>1 DEF TypeOK
<1>3. channel'[p] = <<>> /\ ~Good(channel'[p])
  <2>1. channel[p] = <<>>
    BY <1>1, ZenonT(60) DEF TokenOK, Using
  <2> QED
    BY <2>1, LoginHas, ZenonT(60)
<1>4. token'[p] # NoToken => token'[p] \in MadeFor(p) /\ pc'[p] \in {"closing", "put session"}
  BY LoginHas, ZenonT(60)
<1>5. TokenOK'
  BY <1>1, <1>3, <1>4, TokenStep, ZenonT(60)
<1>6. UnseenOK'
  <2>1. pc[p] \notin Past
    BY ZenonT(60) DEF Using, Past
  <2> QED
    BY <1>1, <2>1, UnseenStep, ZenonT(60)
<1>7. NewTokenOK'
  <2>1. NoToken \in Sound'
    BY ZenonT(60) DEF Sound
  <2>2. (\A t \in Sound \ Sound' : t = cached[p].refresh) /\ token'[p] \in Sound'
    BY <2>1, LoginHas, ZenonT(60)
  <2> QED
    BY <1>1, <1>3, <2>2, NewTokenStep, ZenonT(60)
<1> QED
  BY <1>2, <1>5, <1>6, <1>7, ZenonT(60) DEF Inv

\* PutToken that stores nothing: the token that its process has used up is lost.
LEMMA NothingIs ==
  ASSUME TypeOK, NEW p \in Processes, PutNothing(p), UNCHANGED live
  PROVE  /\ lost' \subseteq Tokens \cup {NoToken} /\ Sound \subseteq Sound'
         /\ pc[p] = "put session" => cached[p].refresh \in Sound'
<1>1. lost \subseteq Tokens \cup {NoToken} /\ cached[p].refresh \in Tokens \cup {NoToken}
  BY SessionTyped DEF TypeOK
<1>2. lost' \subseteq Tokens \cup {NoToken}
  BY <1>1, ZenonT(60) DEF PutNothing
<1>3. Sound \subseteq Sound' /\ (pc[p] = "put session" => cached[p].refresh \in Sound')
  BY ZenonT(60) DEF PutNothing, Sound
<1> QED
  BY <1>2, <1>3

\* A process that leaves the file as it is, and has no token that it alone would replace.
LEMMA FileLeft ==
  ASSUME TypeOK, CacheOK, NEW p \in Processes, Only(p), Sound \subseteq Sound', UNCHANGED <<state, session>>,
         pc[p] = "put session" => cached[p].refresh \in Sound', holders' = holders \ {p}
  PROVE  CacheOK'
<1>1. ASSUME NEW t, Replaced(t)
      PROVE  t \in Sound' \/ \E q \in Processes : pc'[q] = "put session" /\ cached'[q].refresh = t
  BY <1>1, ReplacedStays, ZenonT(60)
<1>2. state' = "whole" => Replaced(session.refresh)'
  BY <1>1, ZenonT(60) DEF CacheOK, Replaced
<1>3. ASSUME NEW q \in holders', pc'[q] = "get session" PROVE Replaced(cached[q].refresh)'
  <2>1. q \in Processes \ {p} /\ q \in holders /\ pc[q] = "get session" /\ cached'[q] = cached[q]
    BY <1>3, ZenonT(60) DEF TypeOK, Only
  <2>2. Replaced(cached[q].refresh)
    BY <2>1, ZenonT(60) DEF CacheOK
  <2> QED
    BY <1>1, <2>1, <2>2, ZenonT(60) DEF Replaced
<1> QED
  BY <1>2, <1>3, ZenonT(60) DEF CacheOK

\* GetToken or PutToken is over and has not touched the file.
LEMMA UnwrittenStep ==
  ASSUME Inv, WaysOK', NEW p \in Processes, pc[p] \in Using, p \notin opened, PutNothing(p), Unlock(p),
         NEW found \in {NoSession, cached[p]}, AfterUse(p, found),
         UNCHANGED <<ways, state, session, credValid, channel, prompt, posts, live, redeemed, ages>>
  PROVE  Inv'
<1>1. TypeOK /\ LockOK /\ CacheOK
  BY ZenonT(60) DEF Inv
<1>2. found \in Sessions
  <2>1. cached[p] \in Sessions /\ NoSession \in Sessions
    BY <1>1, SessionTyped DEF TypeOK
  <2> QED
    BY <2>1, ZenonT(60)
<1>3. /\ pc' \in [Processes -> Places] /\ cached' \in [Processes -> Sessions]
      /\ token' \in [Processes -> Tokens \cup {NoToken}] /\ token'[p] = NoToken
      /\ cached'[p] \in {NoSession, found} /\ Only(p)
  BY <1>1, <1>2, AfterUseIs, ZenonT(60) DEF Only
<1>4. /\ lost' \subseteq Tokens \cup {NoToken} /\ Sound \subseteq Sound'
      /\ pc[p] = "put session" => cached[p].refresh \in Sound'
  BY <1>1, NothingIs
<1>5. holders' = holders \ {p} /\ opened' = opened
  BY ZenonT(60) DEF Unlock
<1>6. holders' \subseteq {q \in Processes : pc'[q] \in Using} /\ opened' \subseteq holders'
  BY <1>1, <1>3, <1>5, ZenonT(60) DEF TypeOK, Only
<1>7. LockOK'
  BY <1>1, <1>5, ZenonT(60) DEF LockOK
<1>8. CacheOK'
  BY <1>1, <1>3, <1>4, <1>5, FileLeft, ZenonT(60)
<1>9. /\ session' \in Sessions /\ session'.refresh = session.refresh /\ state' \in {"absent", "whole", "torn"}
      /\ cached'[p].refresh \in {NoToken, session.refresh, cached[p].refresh}
  BY <1>1, <1>3, SessionTyped, ZenonT(60) DEF TypeOK
<1> QED
  BY <1>3, <1>4, <1>6, <1>7, <1>8, <1>9, FileStep, ZenonT(60)

\* GetToken without a file; a lock that cannot be had; and a writeTo that fails before it truncates.
LEMMA NoWriteStep ==
  ASSUME Inv, WaysOK', NEW p \in Processes, Missing(p) \/ LockFails(p) \/ LeaveUnwritten(p)
  PROVE  Inv'
<1>1. opened \subseteq holders /\ holders \subseteq {q \in Processes : pc[q] \in Using}
  BY ZenonT(60) DEF Inv, TypeOK
<1>2. CASE Missing(p)
  <2>1. /\ pc[p] = "get session" /\ p \notin holders /\ AfterUse(p, NoSession)
        /\ UNCHANGED <<ways, state, session, holders, opened, credValid, channel, prompt, posts, live, redeemed, lost, ages>>
    BY <1>2, ZenonT(60) DEF Missing, files, browser, provider
  <2>2. pc[p] \in Using /\ p \notin opened /\ Unlock(p)
    BY <1>1, <2>1, ZenonT(60) DEF Using, Unlock
  <2>3. PutNothing(p)
    <3>1. pc[p] # "put session" /\ lost' = lost
      BY <2>1
    <3> QED
      BY <3>1, ZenonT(60) DEF PutNothing
  <2> QED
    BY <2>1, <2>2, <2>3, UnwrittenStep, ZenonT(60)
<1>3. CASE LockFails(p)
  <2>1. /\ pc[p] \in Using /\ p \notin holders /\ PutNothing(p) /\ AfterUse(p, NoSession)
        /\ UNCHANGED <<ways, state, session, holders, opened, credValid, channel, prompt, posts, live, redeemed, ages>>
    BY <1>3, ZenonT(60) DEF LockFails, files, browser, provider
  <2>2. p \notin opened /\ Unlock(p)
    BY <1>1, <2>1, ZenonT(60) DEF Unlock
  <2> QED
    BY <2>1, <2>2, UnwrittenStep, ZenonT(60)
<1>4. CASE LeaveUnwritten(p)
  <2>1. /\ p \in holders /\ p \notin opened /\ Unlock(p) /\ PutNothing(p) /\ AfterUse(p, cached[p])
        /\ UNCHANGED <<ways, state, session, credValid, channel, prompt, posts, live, redeemed, ages>>
    BY <1>4, ZenonT(60) DEF LeaveUnwritten, browser, provider
  <2>2. pc[p] \in Using
    BY <1>1, <2>1, ZenonT(60)
  <2> QED
    BY <2>1, <2>2, UnwrittenStep, ZenonT(60)
<1> QED
  BY <1>2, <1>3, <1>4, ZenonT(60)

\* withCache up to its call of writeTo.
LEMMA EnterStep ==
  ASSUME Inv, WaysOK', NEW p \in Processes, NEW readable \in BOOLEAN, Enter(p, readable)
  PROVE  Inv'
<1>1. /\ TypeOK /\ LockOK /\ CacheOK /\ pc[p] \in Using /\ holders = {} /\ holders' = {p}
      /\ UNCHANGED <<ways, state, session, opened, credValid, pc, token, channel, prompt, posts, live, redeemed, lost, ages>>
  BY ZenonT(60) DEF Inv, Enter, MayLock, browser, provider
<1>2. ReadSession \in Sessions /\ ReadSession.refresh \in {NoToken, session.refresh}
  BY <1>1, SessionTyped DEF ReadSession, TypeOK
<1>3. /\ cached' \in [Processes -> Sessions] /\ \A q \in Processes \ {p} : cached'[q] = cached[q]
      /\ pc[p] = "put session" => cached'[p] = cached[p]
      /\ pc[p] # "put session" => cached'[p] \in {ReadSession, NoSession}
  <2>1. PICK s \in {ReadSession, NoSession} :
          cached' = [cached EXCEPT ![p] = IF pc[p] = "put session" THEN @ ELSE s]
    BY ZenonT(60) DEF Enter
  <2>2. s \in Sessions
    BY <1>2, <2>1, SessionTyped, ZenonT(60)
  <2> QED
    BY <1>1, <2>1, <2>2, ZenonT(60) DEF TypeOK
<1>4. Only(p) /\ Sound' = Sound /\ NoToken \in Sound
  BY <1>1, <1>3, SoundStays, ZenonT(60) DEF Only, Sound
<1>5. LockOK'
  BY <1>1 DEF LockOK
<1>6. CacheOK'
  <2>1. ASSUME NEW t, Replaced(t)
        PROVE  t \in Sound' \/ \E q \in Processes : pc'[q] = "put session" /\ cached'[q].refresh = t
    BY <1>1, <1>3, <1>4, <2>1, ReplacedStays, ZenonT(60)
  <2>2. Replaced(ReadSession.refresh) /\ Replaced(NoSession.refresh)
    BY <1>1, <1>4, SessionTyped, ZenonT(60) DEF CacheOK, ReadSession, Replaced
  <2>3. state = "whole" => Replaced(session.refresh)'
    BY <1>1, <2>1, ZenonT(60) DEF CacheOK, Replaced
  <2>4. ASSUME pc[p] = "get session" PROVE Replaced(cached[p].refresh)'
    <3>1. cached'[p] \in {ReadSession, NoSession}
      BY <1>3, <2>4
    <3> QED
      BY <2>1, <2>2, <3>1, ZenonT(60) DEF Replaced
  <2> QED
    BY <1>1, <2>3, <2>4, ZenonT(60) DEF CacheOK
<1>7. /\ pc' \in [Processes -> Places] /\ token' \in [Processes -> Tokens \cup {NoToken}] /\ session' \in Sessions
      /\ lost' \subseteq Tokens \cup {NoToken} /\ holders' \subseteq {q \in Processes : pc'[q] \in Using}
      /\ opened' \subseteq holders'
  BY <1>1, ZenonT(60) DEF TypeOK
<1>8. cached'[p].refresh \in {NoToken, session.refresh, cached[p].refresh} /\ session'.refresh = session.refresh
  BY <1>1, <1>2, <1>3, SessionTyped, ZenonT(60)
<1>9. state' \in {"absent", "whole", "torn"} /\ token'[p] = token[p] /\ pc'[p] = pc[p]
  BY <1>1, ZenonT(60) DEF TypeOK
<1> QED
  BY <1>1, <1>3, <1>4, <1>5, <1>6, <1>7, <1>8, <1>9, FileStep, ZenonT(60)

\* os.WriteFile opens the file: nobody finds anything in it now.
LEMMA TruncateStep ==
  ASSUME Inv, WaysOK', NEW p \in Processes, Truncate(p)
  PROVE  Inv'
<1>1. /\ TypeOK /\ LockOK /\ CacheOK /\ p \in holders /\ opened' = opened \cup {p} /\ state' = "torn"
      /\ UNCHANGED <<ways, session, holders, credValid, pc, cached, token, channel, prompt, posts, live, redeemed, lost, ages>>
  BY ZenonT(60) DEF Inv, Truncate, browser, provider
<1>2. pc[p] \in Using /\ Only(p) /\ Sound' = Sound
  BY <1>1, SoundStays, ZenonT(60) DEF TypeOK, Only
<1>3. LockOK'
  BY <1>1, ZenonT(60) DEF LockOK
<1>4. CacheOK'
  <2>1. state' # "whole"
    BY <1>1
  <2> QED
    BY <1>1, <1>2, <2>1, ZenonT(60) DEF CacheOK, Replaced
<1>5. /\ pc' \in [Processes -> Places] /\ cached' \in [Processes -> Sessions]
      /\ token' \in [Processes -> Tokens \cup {NoToken}] /\ session' \in Sessions
      /\ lost' \subseteq Tokens \cup {NoToken} /\ holders' \subseteq {q \in Processes : pc'[q] \in Using}
      /\ opened' \subseteq holders'
  BY <1>1, ZenonT(60) DEF TypeOK
<1>6. state' \in {"absent", "whole", "torn"} /\ token'[p] = token[p] /\ pc'[p] = pc[p]
  BY <1>1, ZenonT(60)
<1>7. cached'[p].refresh = cached[p].refresh /\ session'.refresh = session.refresh
  BY <1>1, ZenonT(60)
<1> QED
  BY <1>1, <1>2, <1>3, <1>4, <1>5, <1>6, <1>7, FileStep, ZenonT(60)

\* The rest of withCache: what is written is what GetToken read, or the new tokens of PutToken.
LEMMA LeaveStep ==
  ASSUME Inv, WaysOK', NEW p \in Processes, NEW written \in BOOLEAN, Leave(p, written)
  PROVE  Inv'
<1>1. /\ TypeOK /\ LockOK /\ CacheOK /\ p \in opened /\ holders' = holders \ {p} /\ opened' = opened \ {p}
      /\ state' \in {"whole", "torn"} /\ WriteSession(p) /\ AfterUse(p, cached[p])
      /\ UNCHANGED <<ways, credValid, channel, prompt, posts, live, redeemed, lost, ages>>
  BY ZenonT(60) DEF Inv, Leave, Unlock, browser, provider
<1>0. p \in holders /\ pc[p] \in Using /\ opened \subseteq holders /\ Sound' = Sound
  BY <1>1, SoundStays, ZenonT(60) DEF TypeOK
<1>2. holders' = {} /\ opened' = {} /\ LockOK'
  BY <1>0, <1>1, ZenonT(60) DEF LockOK
<1>3. cached[p] \in Sessions /\ token[p] \in Tokens \cup {NoToken}
  BY <1>1 DEF TypeOK
<1>4. /\ pc' \in [Processes -> Places] /\ cached' \in [Processes -> Sessions]
      /\ token' \in [Processes -> Tokens \cup {NoToken}] /\ token'[p] = NoToken
      /\ cached'[p] \in {NoSession, cached[p]} /\ (pc[p] = "put session" => pc'[p] = "exchange")
      /\ Only(p)
  BY <1>1, <1>3, AfterUseIs, ZenonT(60) DEF Only
<1>5. /\ session' \in Sessions
      /\ pc[p] = "get session" => session' = cached[p]
      /\ pc[p] # "get session" => session'.refresh = token[p]
  <2>1. [id |-> "long", refresh |-> token[p]] \in Sessions /\ [id |-> "long", refresh |-> token[p]].refresh = token[p]
    BY <1>3, SessionTyped, ZenonT(60) DEF Validity
  <2> QED
    BY <1>1, <1>3, <2>1, ZenonT(60) DEF WriteSession
<1>6. \/ session'.refresh \in {NoToken, session.refresh, cached[p].refresh}
      \/ session'.refresh \in MadeFor(p) /\ pc'[p] \in Past
  <2>1. CASE pc[p] = "get session"
    BY <1>5, <2>1, ZenonT(60)
  <2>2. CASE pc[p] = "put session"
    BY <1>4, <1>5, <2>2, LoginHas, ZenonT(60) DEF Past
  <2> QED
    BY <1>0, <2>1, <2>2, ZenonT(60) DEF Using
<1>7. CacheOK'
  <2> SUFFICES Replaced(session.refresh)'
    BY <1>1, <1>2, ZenonT(60) DEF CacheOK
  <2>1. CASE pc[p] = "get session"
    <3>1. Replaced(cached[p].refresh)
      BY <1>0, <1>1, <2>1, ZenonT(60) DEF CacheOK
    <3>2. \/ cached[p].refresh \in Sound'
          \/ \E q \in Processes : pc'[q] = "put session" /\ cached'[q].refresh = cached[p].refresh
      <4>1. pc[p] # "put session"
        BY <2>1
      <4> QED
        BY <1>0, <1>4, <3>1, <4>1, ReplacedStays, ZenonT(60)
    <3> QED
      BY <1>5, <2>1, <3>2, ZenonT(60) DEF Replaced
  <2>2. CASE pc[p] = "put session"
    <3>1. session'.refresh = token[p]
      BY <1>5, <2>2
    <3> QED
      BY <1>0, <3>1, LoginHas, ZenonT(60) DEF Replaced
  <2> QED
    BY <1>0, <2>1, <2>2, ZenonT(60) DEF Using
<1>8. cached'[p].refresh \in {NoToken, session.refresh, cached[p].refresh}
  BY <1>4, SessionTyped, ZenonT(60)
<1>9. /\ lost' \subseteq Tokens \cup {NoToken} /\ state' \in {"absent", "whole", "torn"}
      /\ holders' \subseteq {q \in Processes : pc'[q] \in Using} /\ opened' \subseteq holders'
  BY <1>1, <1>2, ZenonT(60) DEF TypeOK
<1> QED
  BY <1>0, <1>1, <1>2, <1>4, <1>5, <1>6, <1>7, <1>8, <1>9, FileStep, ZenonT(60)

\* A process is killed: the file is torn if it was writing it, and as it was otherwise.
LEMMA DieStep ==
  ASSUME Inv, WaysOK', NEW p \in Processes, Die(p)
  PROVE  Inv'
<1>1. /\ TypeOK /\ LockOK /\ TokenOK /\ UnseenOK /\ NewTokenOK /\ CacheOK
      /\ End(p) /\ holders' = holders \ {p} /\ opened' = opened \ {p}
      /\ p \in opened => lost' = lost
      /\ p \notin opened => PutNothing(p)
      /\ UNCHANGED <<ways, state, session, credValid, posts, live, ages>>
  BY ZenonT(60) DEF Inv, Die, Unlock
<1>0. /\ lost' \subseteq Tokens \cup {NoToken} /\ Sound \subseteq Sound'
      /\ p \notin opened => (pc[p] = "put session" => cached[p].refresh \in Sound')
  <2>1. CASE p \in opened
    BY <1>1, <2>1, SoundStays, ZenonT(60) DEF TypeOK
  <2>2. CASE p \notin opened
    BY <1>1, <2>2, NothingIs, ZenonT(60)
  <2> QED
    BY <2>1, <2>2
<1>2. /\ pc' \in [Processes -> Places] /\ cached' \in [Processes -> Sessions]
      /\ token' \in [Processes -> Tokens \cup {NoToken}] /\ channel' \in [Processes -> Seq(Messages)]
      /\ prompt' \in [Processes -> {"none", "reading", "sent"}] /\ redeemed' \subseteq Processes
      /\ pc'[p] = "over" /\ cached'[p] = NoSession /\ token'[p] = NoToken /\ channel'[p] = <<>>
      /\ Only(p)
  BY <1>1, EndIs, ZenonT(60) DEF Only
<1>3. holders' \subseteq {q \in Processes : pc'[q] \in Using} /\ opened' \subseteq holders'
  BY <1>1, <1>2, ZenonT(60) DEF TypeOK, Only
<1>4. TypeOK'
  BY <1>0, <1>1, <1>2, <1>3, ZenonT(60) DEF TypeOK
<1>5. LockOK'
  BY <1>1, ZenonT(60) DEF LockOK
<1>6. TokenOK'
  BY <1>1, <1>2, TokenStep, ZenonT(60)
<1>7. UnseenOK'
  <2>1. cached'[p].refresh = NoToken /\ session'.refresh = session.refresh /\ pc'[p] \in Past
    BY <1>1, <1>2, SessionTyped, ZenonT(60) DEF Past
  <2> QED
    BY <1>1, <1>2, <2>1, UnseenStep, ZenonT(60)
<1>8. NewTokenOK'
  <2>1. ~Good(channel'[p])
    BY <1>2, LoginHas, ZenonT(60)
  <2>2. (\A t \in Sound \ Sound' : t = cached[p].refresh) /\ token'[p] \in Sound'
    BY <1>0, <1>2, ZenonT(60) DEF Sound
  <2> QED
    BY <1>1, <1>2, <2>1, <2>2, NewTokenStep, ZenonT(60)
<1>9. CacheOK'
  <2>1. CASE p \in opened
    <3>1. holders' = {} /\ state' # "whole"
      <4>1. p \in holders /\ state = "torn"
        BY <1>1, <2>1, ZenonT(60) DEF LockOK, TypeOK
      <4>2. holders' = {}
        BY <1>1, <4>1, ZenonT(60) DEF LockOK
      <4> QED
        BY <1>1, <4>1, <4>2
    <3> QED
      BY <3>1, ZenonT(60) DEF CacheOK
  <2>2. CASE p \notin opened
    BY <1>0, <1>1, <1>2, <2>2, FileLeft, ZenonT(60)
  <2> QED
    BY <2>1, <2>2
<1> QED
  BY <1>4, <1>5, <1>6, <1>7, <1>8, <1>9 DEF Inv


\* Time passes: an ID token gets older, the refresh token stays.
LEMMA AgeStep ==
  ASSUME Inv, WaysOK', Age
  PROVE  Inv'
<1>1. /\ TypeOK /\ LockOK /\ TokenOK /\ UnseenOK /\ NewTokenOK /\ CacheOK
      /\ UNCHANGED <<ways, state, holders, opened, pc, cached, token, channel, prompt, posts, live, redeemed, lost>>
      /\ ages < MaxAge /\ ages' = ages + 1
  BY DEF Inv, Age, browser, provider
<1>2. session' \in Sessions /\ session'.refresh = session.refresh /\ credValid' \in BOOLEAN
  BY <1>1, ZenonT(60) DEF Age, TypeOK, Sessions, Validity
<1>3. ages' \in 0..MaxAge
  BY <1>1, BoundAssumption DEF TypeOK
<1>4. TypeOK'
  BY <1>1, <1>2, <1>3 DEF TypeOK
<1>5. LockOK' /\ TokenOK'
  BY <1>1, ZenonT(60) DEF LockOK, TokenOK, MadeFor
<1>6. UnseenOK'
  BY <1>1, <1>2, ZenonT(60) DEF UnseenOK, MadeFor
<1>7. NewTokenOK'
  BY <1>1, SoundStays, ZenonT(60) DEF NewTokenOK
<1>8. CacheOK'
  BY <1>1, <1>2, SoundStays, ZenonT(60) DEF CacheOK, Replaced
<1> QED
  BY <1>4, <1>5, <1>6, <1>7, <1>8 DEF Inv

-----------------------------------------------------------------------------
(* The invariant, and what follows from it.                                *)

\* There is a session from before, or none.
LEMMA InvInit == Init => Inv
<1> SUFFICES ASSUME Init PROVE Inv
  OBVIOUS
<1>1. session \in Sessions /\ session.refresh \in {NoToken, First}
  BY SessionTyped, ZenonT(60) DEF Init, Sessions, Tokens
<1>2. state \in {"absent", "whole", "torn"} /\ live \subseteq Tokens /\ ways \subseteq Ways
  BY ZenonT(60) DEF Init, Tokens, Ways
<1>3. /\ pc \in [Processes -> Places] /\ cached \in [Processes -> Sessions]
      /\ token \in [Processes -> Tokens \cup {NoToken}]
      /\ prompt \in [Processes -> {"none", "reading", "sent"}]
  BY SessionTyped, ZenonT(60) DEF Init, Places
<1>4. channel \in [Processes -> Seq(Messages)] /\ \A p \in Processes : channel[p] = <<>>
  <2>1. channel = [p \in Processes |-> <<>>]
    BY ZenonT(60) DEF Init
  <2>2. <<>> \in Seq(Messages)
    OBVIOUS
  <2> QED
    BY <2>1, <2>2
<1>5. posts \in 0..MaxPosts /\ ages \in 0..MaxAge
  <2>1. posts = 0 /\ ages = 0
    BY ZenonT(60) DEF Init
  <2> QED
    BY <2>1, BoundAssumption
<1>6. TypeOK
  BY <1>1, <1>2, <1>3, <1>4, <1>5, ZenonT(60) DEF Init, TypeOK
<1>7. WaysOK
  BY ZenonT(60) DEF Init, WaysOK
<1>8. LockOK /\ TokenOK
  BY ZenonT(60) DEF Init, LockOK, TokenOK
<1>9. UnseenOK
  BY <1>1, TokensDiffer, SessionTyped, ZenonT(60) DEF Init, UnseenOK
<1>10. NewTokenOK
  <2>1. \A p \in Processes : token[p] = NoToken
    BY ZenonT(60) DEF Init
  <2>2. Len(<<>>) = 0
    OBVIOUS
  <2> QED
    BY <1>4, <2>1, <2>2 DEF NewTokenOK, Sound
<1>11. CacheOK
  BY <1>1, ZenonT(60) DEF Init, CacheOK, Replaced, Sound
<1> QED
  BY <1>6, <1>7, <1>8, <1>9, <1>10, <1>11 DEF Inv

\* Every step of every process keeps the invariant.
LEMMA InvNext == Inv /\ [Next]_vars => Inv'
<1> SUFFICES ASSUME Inv, [Next]_vars PROVE Inv'
  OBVIOUS
<1>1. CASE UNCHANGED vars
  <2>1. UNCHANGED <<ways, state, session, holders, opened, credValid, pc, cached, token, channel, prompt, posts, live, redeemed,
                    lost, ages>>
    BY <1>1 DEF vars, files, browser, provider
  <2>2. TypeOK'
    BY <2>1 DEF Inv, TypeOK
  <2>3. WaysOK' /\ LockOK'
    BY <2>1 DEF Inv, WaysOK, LockOK
  <2>4. TokenOK' /\ UnseenOK'
    BY <2>1, ZenonT(60) DEF Inv, TokenOK, UnseenOK
  <2>5. NewTokenOK'
    BY <2>1, SoundStays, ZenonT(60) DEF Inv, NewTokenOK
  <2>6. CacheOK'
    BY <2>1, SoundStays, ZenonT(60) DEF Inv, CacheOK, Replaced
  <2> QED
    BY <2>2, <2>3, <2>4, <2>5, <2>6 DEF Inv
<1>2. CASE Next
  <2>0. WaysOK'
    BY <1>2, WaysNext DEF Inv
  <2>1. ASSUME NEW p \in Processes, Work(p) PROVE Inv'
    <3>1. CASE \E ok \in BOOLEAN :
                 \/ GetCredential(p, ok) \/ PutCredential(p, ok) \/ Enter(p, ok) \/ Leave(p, ok)
                 \/ Discover(p, ok) \/ Refreshed(p, ok) \/ RefreshFails(p, ok) \/ Exchange(p, ok)
      BY <2>0, <3>1, CredentialStep, RefreshStep, EnterStep, LeaveStep, ZenonT(60)
    <3>2. CASE Missing(p) \/ Truncate(p) \/ LeaveUnwritten(p)
      BY <2>0, <3>2, NoWriteStep, TruncateStep, ZenonT(60)
    <3>3. CASE PromptCancelled(p) \/ Receive(p) \/ TimeOut(p) \/ Close(p)
      BY <2>0, <3>3, MessageStep, ReceiveStep, CloseStep, ZenonT(60)
    <3> QED
      BY <2>1, <3>1, <3>2, <3>3, ZenonT(60) DEF Work
  <2>2. ASSUME NEW p \in Processes, LockFails(p) \/ Die(p) PROVE Inv'
    BY <2>0, <2>2, NoWriteStep, DieStep, ZenonT(60)
  <2>3. ASSUME NEW p \in Processes, NEW good \in BOOLEAN, Callback(p, good) \/ Paste(p, good) \/ PasswordLogin(p, good)
        PROVE  Inv'
    BY <2>0, <2>3, MessageStep, PasswordStep, ZenonT(60)
  <2>4. CASE Age
    BY <2>0, <2>4, AgeStep
  <2>5. CASE Finished
    BY <1>1, <2>5 DEF Finished
  <2> QED
    BY <1>2, <2>1, <2>2, <2>3, <2>4, <2>5, ZenonT(60) DEF Next
<1> QED
  BY <1>1, <1>2

\* The inductive invariant of the command's processes holds for any number of them.
THEOREM InvAlways == Spec => []Inv
  BY InvInit, InvNext, PTL DEF Spec

\* runOIDCLogin and what it calls: every variable keeps its type, and only a process that uses the
\* session file has locked it.
THEOREM TypeCorrect == Spec => []TypeOK
<1>1. Inv => TypeOK
  BY DEF Inv
<1> QED
  BY <1>1, InvAlways, PTL

\* PutToken after handleRefresh: with any number of commands at a time, a refresh token in the
\* session file that was used already is about to be replaced by the process that used it, unless
\* it is one whose replacement is lost.
THEOREM CachedTokenLives == Spec => []CachedTokenIsLive
<1>1. Inv => CachedTokenIsLive
  <2> SUFFICES ASSUME Inv, ReadSession.refresh \notin Sound
               PROVE  \E p \in Processes : pc[p] = "put session" /\ cached[p].refresh = session.refresh
    BY ZenonT(60) DEF CachedTokenIsLive, Sound
  <2>1. state = "whole" /\ ReadSession = session
    BY SessionTyped, ZenonT(60) DEF ReadSession, Sound
  <2> QED
    BY <2>1, ZenonT(60) DEF Inv, CacheOK, Replaced
<1> QED
  BY <1>1, InvAlways, PTL


-----------------------------------------------------------------------------
(* The prompt's goroutine and the channel.                                 *)

\* Of the messages of one process, at most one is from the prompt, which is done then.
OnePrompt(c, s) ==
  \A i, j \in 1..Len(c) :
    /\ c[i].from = "prompt" => s = "sent"
    /\ c[i].from = "prompt" /\ c[j].from = "prompt" => i = j

\* A new message, and the receipt of the oldest one.
LEMMA OnePromptStays ==
  ASSUME NEW c \in Seq(Messages), NEW s, OnePrompt(c, s)
  PROVE  /\ \A m \in Messages : m.from = "callback" => OnePrompt(Append(c, m), s)
         /\ \A m \in Messages : s # "sent" => OnePrompt(Append(c, m), "sent")
         /\ c # <<>> => OnePrompt(Tail(c), s)
<1>1. ASSUME NEW m \in Messages
      PROVE  /\ Len(Append(c, m)) = Len(c) + 1 /\ Append(c, m)[Len(c) + 1] = m
             /\ \A i \in 1..Len(c) : Append(c, m)[i] = c[i]
             /\ \A i \in 1..(Len(c) + 1) : i \in 1..Len(c) \/ i = Len(c) + 1
  OBVIOUS
<1>2. ASSUME NEW m \in Messages, m.from = "callback" PROVE OnePrompt(Append(c, m), s)
  <2>1. \A i \in 1..(Len(c) + 1) :
          Append(c, m)[i].from = "prompt" => i \in 1..Len(c) /\ c[i].from = "prompt"
    BY <1>1, <1>2
  <2> QED
    BY <1>1, <2>1 DEF OnePrompt
<1>3. ASSUME NEW m \in Messages, s # "sent" PROVE OnePrompt(Append(c, m), "sent")
  <2>1. \A i \in 1..(Len(c) + 1) : Append(c, m)[i].from = "prompt" => i = Len(c) + 1
    BY <1>1, <1>3 DEF OnePrompt
  <2> QED
    BY <1>1, <2>1 DEF OnePrompt
<1>4. ASSUME c # <<>> PROVE OnePrompt(Tail(c), s)
  <2>1. \A i \in 1..Len(Tail(c)) : i + 1 \in 1..Len(c) /\ Tail(c)[i] = c[i + 1]
    BY <1>4
  <2>2. Len(Tail(c)) \in Nat
    BY <1>4
  <2> QED
    BY <2>1, <2>2 DEF OnePrompt
<1> QED
  BY <1>2, <1>3, <1>4

\* promptForWebLogin: the goroutine sends one message, whatever else happens.
LEMMA PromptNext ==
  ASSUME Inv, PromptOK, [Next]_vars
  PROVE  PromptOK'
<1> DEFINE One(q) == OnePrompt(channel'[q], prompt'[q])
<1>0. /\ channel \in [Processes -> Seq(Messages)] /\ DOMAIN channel = Processes /\ DOMAIN prompt = Processes
      /\ \A q \in Processes : channel[q] \in Seq(Messages)
  BY DEF Inv, TypeOK
<1>1. \A q \in Processes : OnePrompt(channel[q], prompt[q])
  BY DEF PromptOK, OnePrompt
<1>2. SUFFICES \A q \in Processes : One(q)
  BY <1>2, ZenonT(60) DEF PromptOK, OnePrompt
<1>3. \A s : OnePrompt(<<>>, s)
  <2>1. 1..Len(<<>>) = {}
    OBVIOUS
  <2> QED
    BY <2>1 DEF OnePrompt
<1>4. ASSUME UNCHANGED <<channel, prompt>> PROVE \A q \in Processes : One(q)
  BY <1>1, <1>4
<1>5. ASSUME NEW p \in Processes, channel' = [channel EXCEPT ![p] = <<>>], NEW s, prompt' = [prompt EXCEPT ![p] = s]
      PROVE  \A q \in Processes : One(q)
  <2>1. \A q \in Processes \ {p} : channel'[q] = channel[q] /\ prompt'[q] = prompt[q]
    BY <1>0, <1>5, ZenonT(60)
  <2>2. channel'[p] = <<>>
    BY <1>0, <1>5, ZenonT(60)
  <2> QED
    BY <1>1, <1>3, <2>1, <2>2, ZenonT(60)
<1>6. ASSUME NEW p \in Processes, StartLogin(p), UNCHANGED channel, pc[p] \in {"discover", "refresh"}
      PROVE  \A q \in Processes : One(q)
  <2>1. channel[p] = <<>>
    BY <1>6, ZenonT(60) DEF Inv, TokenOK
  <2>2. PICK s : prompt' = [prompt EXCEPT ![p] = s]
    BY <1>6, ZenonT(60) DEF StartLogin
  <2>3. \A q \in Processes \ {p} : channel'[q] = channel[q] /\ prompt'[q] = prompt[q]
    BY <1>0, <1>6, <2>2, ZenonT(60)
  <2> QED
    BY <1>1, <1>3, <1>6, <2>1, <2>3, ZenonT(60)
<1>7. ASSUME NEW p \in Processes, NEW from \in {"callback", "prompt"}, Redeem(p, from) \/ Refuse(p, from)
      PROVE  /\ \E m \in Messages : m.from = from /\ channel'[p] = Append(channel[p], m)
             /\ \A q \in Processes \ {p} : channel'[q] = channel[q]
  <2>1. PICK ok \in BOOLEAN : channel' = [channel EXCEPT ![p] = Append(@, [from |-> from, ok |-> ok])]
    BY <1>7, ZenonT(60) DEF Redeem, Refuse
  <2>2. [from |-> from, ok |-> ok] \in Messages /\ [from |-> from, ok |-> ok].from = from
    BY DEF Messages
  <2>3. channel'[p] = Append(channel[p], [from |-> from, ok |-> ok])
    BY <1>0, <2>1, ZenonT(60)
  <2>4. \A q \in Processes \ {p} : channel'[q] = channel[q]
    BY <1>0, <2>1, ZenonT(60)
  <2> QED
    BY <2>2, <2>3, <2>4, ZenonT(60)
<1>8. ASSUME NEW p \in Processes, NEW good \in BOOLEAN, Callback(p, good) PROVE \A q \in Processes : One(q)
  <2>1. prompt' = prompt /\ (Redeem(p, "callback") \/ Refuse(p, "callback"))
    BY <1>8, ZenonT(60) DEF Callback
  <2>2. PICK m \in Messages : m.from = "callback" /\ channel'[p] = Append(channel[p], m)
    BY <1>7, <2>1, ZenonT(60)
  <2>3. OnePrompt(channel'[p], prompt[p])
    BY <1>0, <1>1, <2>2, OnePromptStays, ZenonT(60)
  <2>4. \A q \in Processes \ {p} : channel'[q] = channel[q]
    BY <1>7, <2>1, ZenonT(60)
  <2> QED
    BY <1>1, <2>1, <2>3, <2>4, ZenonT(60)
<1>9. ASSUME NEW p \in Processes, NEW good \in BOOLEAN, Paste(p, good) \/ PromptCancelled(p)
      PROVE  \A q \in Processes : One(q)
  <2>1. /\ prompt[p] = "reading" /\ prompt' = [prompt EXCEPT ![p] = "sent"]
        /\ Redeem(p, "prompt") \/ Refuse(p, "prompt")
    BY <1>9, ZenonT(60) DEF Paste, PromptCancelled
  <2>2. PICK m \in Messages : channel'[p] = Append(channel[p], m)
    BY <1>7, <2>1, ZenonT(60)
  <2>3. prompt[p] # "sent"
    BY <2>1
  <2>4. OnePrompt(channel'[p], "sent")
    BY <1>0, <1>1, <2>2, <2>3, OnePromptStays, ZenonT(60)
  <2>5. \A q \in Processes \ {p} : channel'[q] = channel[q] /\ prompt'[q] = prompt[q]
    BY <1>0, <1>7, <2>1, ZenonT(60)
  <2>6. prompt'[p] = "sent"
    BY <1>0, <2>1, ZenonT(60)
  <2> QED
    BY <1>1, <2>4, <2>5, <2>6, ZenonT(60)
<1>10. ASSUME NEW p \in Processes, Receive(p) PROVE \A q \in Processes : One(q)
  <2>1. channel[p] # <<>> /\ channel' = [channel EXCEPT ![p] = Tail(@)] /\ prompt' = prompt
    BY <1>10, ZenonT(60) DEF Receive
  <2>2. channel'[p] = Tail(channel[p]) /\ \A q \in Processes \ {p} : channel'[q] = channel[q]
    BY <1>0, <2>1, ZenonT(60)
  <2>3. OnePrompt(Tail(channel[p]), prompt[p])
    BY <1>0, <1>1, <2>1, OnePromptStays, ZenonT(60)
  <2> QED
    BY <1>1, <2>1, <2>2, <2>3, ZenonT(60)
<1> HIDE DEF One
<1>11. ASSUME NEW p \in Processes, End(p) PROVE \A q \in Processes : One(q)
  BY <1>5, <1>11, ZenonT(60) DEF End
<1>12. ASSUME NEW p \in Processes, Close(p) PROVE \A q \in Processes : One(q)
  BY <1>5, <1>11, <1>12, ZenonT(60) DEF Close
<1>13. ASSUME NEW p \in Processes, NEW ok \in BOOLEAN,
              \/ GetCredential(p, ok) \/ PutCredential(p, ok) \/ Enter(p, ok) \/ Leave(p, ok) \/ Exchange(p, ok)
              \/ PasswordLogin(p, ok) \/ Refreshed(p, ok)
       PROVE  \A q \in Processes : One(q)
  BY <1>4, <1>11, <1>13, ZenonT(60) DEF GetCredential, PutCredential, Enter, Leave, Exchange, PasswordLogin,
                                          Refreshed, browser
<1>14. ASSUME NEW p \in Processes, NEW ok \in BOOLEAN, Discover(p, ok) \/ RefreshFails(p, ok)
       PROVE  \A q \in Processes : One(q)
  BY <1>4, <1>6, <1>11, <1>14, ZenonT(60) DEF Discover, RefreshFails
<1>15. ASSUME NEW p \in Processes, Missing(p) \/ Truncate(p) \/ LeaveUnwritten(p) \/ TimeOut(p) \/ LockFails(p) \/ Die(p)
       PROVE  \A q \in Processes : One(q)
  BY <1>4, <1>11, <1>15, ZenonT(60) DEF Missing, Truncate, LeaveUnwritten, TimeOut, LockFails, Die, browser
<1>16. ASSUME Age \/ UNCHANGED vars PROVE \A q \in Processes : One(q)
  BY <1>4, <1>16, ZenonT(60) DEF Age, vars, browser
<1>17. ASSUME NEW p \in Processes, Work(p) PROVE \A q \in Processes : One(q)
  BY <1>9, <1>10, <1>12, <1>13, <1>14, <1>15, <1>17, ZenonT(60) DEF Work
<1> QED
  BY <1>8, <1>9, <1>13, <1>15, <1>16, <1>17, ZenonT(60) DEF Next, Finished

\* promptForWebLogin and cleanupPrompt: with any number of callbacks and processes, the goroutine's
\* send blocks only behind two callbacks that nobody has received, which the buffer of two is for.
THEOREM OnlyCallbacksHang == Spec => []OnlyCallbacksBlock
<1>1. Init => PromptOK
  <2>1. 1..Len(<<>>) = {}
    OBVIOUS
  <2>2. Init => \A p \in Processes : channel[p] = <<>>
    BY ZenonT(60) DEF Init
  <2> QED
    BY <2>1, <2>2 DEF PromptOK
<1>2. ASSUME TypeOK, PromptOK, NEW p \in Processes, PromptBlocked(p) PROVE Cardinality(Unreceived(p)) >= 2
  <2>1. channel[p] \in Seq(Messages) /\ Len(channel[p]) \in Nat /\ DOMAIN channel[p] = 1..Len(channel[p])
    BY <1>2 DEF TypeOK
  <2>2. PICK k \in 1..Len(channel[p]) : k > 2 /\ channel[p][k].from = "prompt"
    BY <1>2 DEF PromptBlocked, Capacity
  <2>3. 1 \in 1..Len(channel[p]) /\ 2 \in 1..Len(channel[p]) /\ k # 1 /\ k # 2
    BY <2>1, <2>2
  <2>4. channel[p][1].from # "prompt" /\ channel[p][2].from # "prompt"
    BY <1>2, <2>2, <2>3, ZenonT(60) DEF PromptOK
  <2>5. channel[p][1].from = "callback" /\ channel[p][2].from = "callback"
    <3>1. channel[p][1] \in Messages /\ channel[p][2] \in Messages
      BY <2>1, <2>3
    <3> QED
      BY <2>4, <3>1 DEF Messages
  <2>6. 1..2 \subseteq Unreceived(p) /\ Unreceived(p) \subseteq 1..Len(channel[p])
    BY <2>1, <2>3, <2>5 DEF Unreceived
  <2>7. IsFiniteSet(Unreceived(p))
    <3>1. IsFiniteSet(1..Len(channel[p]))
      BY <2>1, FS_Interval
    <3> QED
      BY <2>6, <3>1, FS_Subset, ZenonT(60)
  <2>8. Cardinality(1..2) = 2
    <3>1. 1 \in Int /\ 2 \in Int /\ ~(1 > 2) /\ 2 - 1 + 1 = 2
      OBVIOUS
    <3> QED
      BY <3>1, FS_Interval, ZenonT(60)
  <2>9. Cardinality(1..2) <= Cardinality(Unreceived(p)) /\ Cardinality(Unreceived(p)) \in Nat
    BY <2>6, <2>7, FS_Subset, FS_CardinalityType
  <2> QED
    BY <2>8, <2>9
<1>3. Inv /\ PromptOK => OnlyCallbacksBlock
  BY <1>2, ZenonT(60) DEF Inv, OnlyCallbacksBlock
<1>4. Inv /\ PromptOK /\ [Next]_vars => PromptOK'
  BY PromptNext
<1> QED
  BY <1>1, <1>3, <1>4, InvAlways, PTL DEF Spec
=============================================================================
