--------------------------- MODULE TokenStoreProofs ---------------------------
(***************************************************************************)
(* Proofs about TokenStore, for every number of credentials, chains and    *)
(* workers and whatever crashes, is lost, dropped or deleted: types, that  *)
(* a traded token is nowhere else until it is stored, that a quiet file is *)
(* current, and what alone loses a chain.                                  *)
(***************************************************************************)
EXTENDS TokenStore, TLAPS

(* The token that replaces a traded one. *)
LEMMA NextToken ==
    ASSUME NEW old \in Token, old.gen < MaxGen
    PROVE  [old EXCEPT !.gen = @ + 1] \in Token
BY StoreAssumption DEF Token

(* The tokens cookies are imported with. *)
LEMMA CookieTokens ==
    ASSUME TypeOK, NEW c \in Chains
    PROVE  First(c) \in Token /\ Exported(c) \in Token
BY StoreAssumption DEF TypeOK, First, Exported, Token

LEMMA EmptyStore == Empty \in Store
BY DEF Empty, Store

(* Taking a credential off a refresh's list. *)
LEMMA DoneList ==
    ASSUME TypeOK, NEW w \in Workers, NEW i \in Ids, DoneWith(w, i)
    PROVE  /\ list' \in [Workers -> Store]
           /\ \A u \in Workers, j \in Ids : list'[u][j] \in {list[u][j], NoToken}
           /\ \A u \in Workers \ {w} : list'[u] = list[u]
<1>1. list \in [Workers -> Store] /\ list[w] \in Store
  BY DEF TypeOK
<1>2. [list[w] EXCEPT ![i] = NoToken] \in Store
  BY <1>1 DEF Store
<1>3. list' = [list EXCEPT ![w] = [list[w] EXCEPT ![i] = NoToken]]
  BY DEF DoneWith
<1>4. \A j \in Ids : list'[w][j] \in {list[w][j], NoToken}
  BY <1>1, <1>3 DEF Store
<1> QED BY <1>1, <1>2, <1>3, <1>4

(* What a trade takes and gives. *)
LEMMA TradeStep ==
    ASSUME TypeOK, NEW w \in Workers, NEW i \in Ids,
           list[w][i] # NoToken, Trade(w, i)
    PROVE  /\ list[w][i] \in Token
           /\ list[w][i].gen < MaxGen
           /\ list[w][i] = Newest(list[w][i].chain)
           /\ newest' = [newest EXCEPT ![list[w][i].chain] = @ + 1]
           /\ newest' \in [Chains -> 0..MaxGen]
           /\ UNCHANGED tab
<1> DEFINE old == list[w][i]
<1>1. old \in Token
  BY DEF TypeOK, Store
<1>2. newest[old.chain] = old.gen /\ old.gen < MaxGen
  BY DEF Trade
<1>3. newest' = [newest EXCEPT ![old.chain] = old.gen + 1] /\ UNCHANGED tab
  BY DEF Trade
<1>4. old.chain \in Chains /\ old.gen + 1 \in 0..MaxGen
  BY <1>1, <1>2, StoreAssumption DEF Token
<1>5. old = [chain |-> old.chain, gen |-> newest[old.chain]]
  BY <1>1, <1>2 DEF Token
<1> QED BY <1>1, <1>2, <1>3, <1>4, <1>5 DEF Newest, TypeOK

-------------------------------------------------------------------------------
(* Types. *)

LEMMA TypeInit == Init => TypeOK
<1> SUFFICES ASSUME Init PROVE TypeOK
  OBVIOUS
<1>1. /\ mem \in Store /\ disk \in Store \cup {Torn}
      /\ list \in [Workers -> Store] /\ copy \in [Workers -> Store]
      /\ \A w \in Workers : list[w] = Empty
  BY EmptyStore DEF Init
<1>2. unused \subseteq Ids /\ boot \subseteq Configured /\ spoilt \in BOOLEAN
  BY DEF Init
<1>3. newest \in [Chains -> 0..MaxGen] /\ tab \in [Chains -> 0..MaxGen]
  BY StoreAssumption DEF Init
<1>4. /\ pc \in [Workers -> {"idle"}] /\ hand \in [Workers -> {NoHand}]
      /\ \A w \in Workers : pc[w] = "idle" /\ hand[w] = NoHand
  BY DEF Init
<1> QED BY <1>1, <1>2, <1>3, <1>4 DEF TypeOK

LEMMA TypeNext == TypeOK /\ [Next]_vars => TypeOK'
<1> SUFFICES ASSUME TypeOK, [Next]_vars PROVE TypeOK'
  OBVIOUS
<1> USE StoreAssumption
<1>1. ASSUME NEW w \in Workers, NEW token \in Token, pc[w] = "idle", AddRaw(w, token)
      PROVE  TypeOK'
  <2>1. \A i \in Ids : [id |-> i, token |-> token] \in Hand
    BY DEF Hand
  <2>2. PICK i \in unused :
          /\ unused' = unused \ {i}
          /\ hand' = [hand EXCEPT ![w] = [id |-> i, token |-> token]]
    BY <1>1 DEF AddRaw
  <2>3. i \in Ids
    BY <2>2 DEF TypeOK
  <2> QED BY <1>1, <2>1, <2>2, <2>3 DEF AddRaw, TypeOK, Go
<1>1a. ASSUME NEW w \in Workers, NEW c \in Chains, Import(w, c) \/ BootImport(w, c)
       PROVE  TypeOK'
  <2>1. First(c) \in Token /\ Exported(c) \in Token
    BY CookieTokens
  <2> QED BY <1>1, <1>1a, <2>1 DEF Import, BootImport
<1>1b. ASSUME NEW c \in Chains, Booted(c) PROVE TypeOK'
  BY <1>1b DEF Booted, TypeOK
<1>2. ASSUME NEW w \in Workers, Push(w) PROVE TypeOK'
  <2>1. hand[w] \in Hand
    BY <1>2 DEF Push, TypeOK
  <2>2. mem' \in Store
    BY <1>2, <2>1 DEF Push, TypeOK, Store, Hand
  <2> QED BY <1>2, <2>2 DEF Push, TypeOK, Go
<1>3. ASSUME NEW w \in Workers, NEW i \in Ids, Delete(w, i) PROVE TypeOK'
  <2>1. mem' \in Store
    BY <1>3 DEF Delete, TypeOK, Store
  <2> QED BY <1>3, <2>1 DEF Delete, TypeOK, Go
<1>4. ASSUME NEW w \in Workers, StartRefresh(w) PROVE TypeOK'
  BY <1>4 DEF StartRefresh, TypeOK, Go
<1>5. ASSUME NEW w \in Workers, NEW i \in Ids, Refreshed(w, i) PROVE TypeOK'
  <2>1. list' \in [Workers -> Store] /\ \A u \in Workers \ {w} : list'[u] = list[u]
    BY <1>5, DoneList DEF Refreshed
  <2>2. /\ list[w][i] \in Token
        /\ list[w][i].gen < MaxGen
        /\ newest' \in [Chains -> 0..MaxGen] /\ UNCHANGED tab
    BY <1>5, TradeStep DEF Refreshed
  <2>3. [id |-> i, token |-> [list[w][i] EXCEPT !.gen = @ + 1]] \in Hand
    BY <2>2, NextToken DEF Hand
  <2> QED BY <1>5, <2>1, <2>2, <2>3 DEF Refreshed, TypeOK, Go
<1>6. ASSUME NEW w \in Workers, NEW i \in Ids, AnswerLost(w, i) \/ NotRefreshed(w, i)
      PROVE  TypeOK'
  <2>1. list' \in [Workers -> Store] /\ \A u \in Workers \ {w} : list'[u] = list[u]
    BY <1>6, DoneList DEF AnswerLost, NotRefreshed
  <2>2. newest' \in [Chains -> 0..MaxGen] /\ UNCHANGED tab
    BY <1>6, TradeStep DEF AnswerLost, NotRefreshed, TypeOK
  <2>3. /\ pc[w] = "refresh"
        /\ UNCHANGED <<mem, disk, unused, pc, hand, copy, boot, spoilt>>
    BY <1>6 DEF AnswerLost, NotRefreshed
  <2> QED BY <2>1, <2>2, <2>3 DEF TypeOK
<1>7. ASSUME NEW w \in Workers, Update(w) PROVE TypeOK'
  <2>1. hand[w] \in Hand
    BY <1>7 DEF Update, TypeOK
  <2>2. mem' \in Store
    BY <1>7, <2>1 DEF Update, TypeOK, Store, Hand
  <2> QED BY <1>7, <2>2 DEF Update, TypeOK, Go
<1>8. ASSUME NEW w \in Workers, EndRefresh(w) PROVE TypeOK'
  BY <1>8 DEF EndRefresh, TypeOK, Go
<1>9. ASSUME NEW w \in Workers, SaveRead(w) PROVE TypeOK'
  BY <1>9 DEF SaveRead, TypeOK, Go
<1>10. ASSUME NEW w \in Workers, Truncate(w) PROVE TypeOK'
  BY <1>10 DEF Truncate, TypeOK, Go
<1>11. ASSUME NEW w \in Workers, Write(w) \/ SaveFails(w) PROVE TypeOK'
  <2>1. /\ copy' = [copy EXCEPT ![w] = Empty]
        /\ Go(w, IF list[w] = Empty THEN "idle" ELSE "refresh")
        /\ UNCHANGED <<mem, unused, newest, tab, list, hand, boot>>
        /\ pc[w] \in {"truncate", "write"}
        /\ disk' \in {disk, copy[w], Torn}
        /\ spoilt' \in {spoilt, TRUE}
    BY <1>11 DEF Write, SaveFails, EndSave
  <2>2. disk' \in Store \cup {Torn} /\ copy' \in [Workers -> Store]
    BY <2>1, EmptyStore DEF TypeOK
  <2>3. spoilt' \in BOOLEAN
    BY <2>1 DEF TypeOK
  <2>4. /\ pc' = [pc EXCEPT ![w] = IF list[w] = Empty THEN "idle" ELSE "refresh"]
        /\ pc[w] \notin {"push", "update"}
    BY <2>1 DEF Go
  <2> QED BY <2>1, <2>2, <2>3, <2>4 DEF TypeOK
<1>12. ASSUME NEW w \in Workers, Disconnect(w) PROVE TypeOK'
  BY <1>12, EmptyStore DEF Disconnect, TypeOK, Go
<1>13. ASSUME Crash PROVE TypeOK'
  <2>1. Loaded \in Store
    BY EmptyStore DEF Loaded, TypeOK
  <2> QED BY <1>13, <2>1, EmptyStore DEF Crash, TypeOK
<1>13a. ASSUME NEW c \in Chains, BrowserTrades(c) PROVE TypeOK'
  <2>1. newest[c] \in 0..MaxGen /\ newest[c] < MaxGen /\ tab[c] = newest[c]
    BY <1>13a DEF BrowserTrades, TypeOK
  <2>2. newest' \in [Chains -> 0..MaxGen] /\ tab' \in [Chains -> 0..MaxGen]
    BY <1>13a, <2>1 DEF BrowserTrades, TypeOK
  <2> QED BY <1>13a, <2>2 DEF BrowserTrades, TypeOK
<1>14. CASE UNCHANGED vars
  BY <1>14 DEF vars, TypeOK
<1> QED
  BY <1>1a, <1>1b, <1>2, <1>3, <1>4, <1>5, <1>6, <1>7, <1>8, <1>9, <1>10, <1>11,
     <1>12, <1>13, <1>13a, <1>14 DEF Next

(* Every variable of the store keeps its type; a worker has something in hand *)
(* exactly before a push or an update, and a list only while it refreshes.    *)
THEOREM StoreTypes == Spec => []TypeOK
<1> QED BY TypeInit, TypeNext, PTL DEF Spec

-------------------------------------------------------------------------------
(* A traded token is new.  The strengthening: no token anywhere, the file and *)
(* the copies about to be written included, nor the browser's, is ahead of    *)
(* the auth service.                                                         *)
Known(token) == token # NoToken => token.gen <= newest[token.chain]

NothingAhead ==
    /\ \A i \in Ids : Known(mem[i])
    /\ disk # Torn => \A i \in Ids : Known(disk[i])
    /\ \A w \in Workers, i \in Ids : Known(list[w][i]) /\ Known(copy[w][i])
    /\ \A w \in Workers : hand[w] # NoHand => Known(hand[w].token)
    /\ \A c \in Chains : tab[c] <= newest[c]

NewInv == NothingAhead /\ TradedTokenIsNew

(* The service only ever moves on, so what was known stays known.             *)
LEMMA NewestGrows ==
    ASSUME TypeOK, [Next]_vars, NEW c \in Chains
    PROVE  newest[c] <= newest'[c]
<1>1. ASSUME NEW w \in Workers, NEW i \in Ids, list[w][i] # NoToken, Trade(w, i)
      PROVE  newest[c] <= newest'[c]
  BY <1>1, TradeStep, StoreAssumption DEF TypeOK
<1>2. ASSUME UNCHANGED newest PROVE newest[c] <= newest'[c]
  BY <1>2, StoreAssumption DEF TypeOK
<1>2a. ASSUME NEW d \in Chains, BrowserTrades(d) PROVE newest[c] <= newest'[c]
  BY <1>2a, StoreAssumption DEF BrowserTrades, TypeOK
<1>3. \/ UNCHANGED newest
      \/ \E d \in Chains : BrowserTrades(d)
      \/ \E w \in Workers, i \in Ids : list[w][i] # NoToken /\ Trade(w, i)
  BY DEF Next, vars, Import, BootImport, AddRaw, Booted, Push, Delete,
         StartRefresh, Refreshed, AnswerLost, NotRefreshed, Update, EndRefresh,
         SaveRead, Truncate, Write, SaveFails, EndSave, Disconnect, Crash
<1> QED BY <1>1, <1>2, <1>2a, <1>3

LEMMA TabChanges ==
    ASSUME [Next]_vars
    PROVE  UNCHANGED tab \/ \E c \in Chains : BrowserTrades(c)
<1>1. ASSUME NEW w \in Workers, NEW c \in Chains, Import(w, c) \/ BootImport(w, c)
      PROVE  UNCHANGED tab
  BY <1>1 DEF Import, BootImport, AddRaw
<1>2. ASSUME NEW w \in Workers, NEW i \in Ids,
             Delete(w, i) \/ Refreshed(w, i) \/ AnswerLost(w, i) \/ NotRefreshed(w, i)
      PROVE  UNCHANGED tab
  BY <1>2 DEF Delete, Refreshed, AnswerLost, NotRefreshed, Trade
<1>3. ASSUME NEW w \in Workers,
             Push(w) \/ StartRefresh(w) \/ Update(w) \/ EndRefresh(w) \/ Disconnect(w)
      PROVE  UNCHANGED tab
  BY <1>3 DEF Push, StartRefresh, Update, EndRefresh, Disconnect
<1>4. ASSUME NEW w \in Workers, SaveRead(w) \/ Truncate(w) \/ Write(w) \/ SaveFails(w)
      PROVE  UNCHANGED tab
  BY <1>4 DEF SaveRead, Truncate, Write, SaveFails, EndSave
<1>5. ASSUME (\E c \in Chains : Booted(c)) \/ Crash \/ UNCHANGED vars
      PROVE  UNCHANGED tab
  BY <1>5 DEF Booted, Crash, vars
<1> QED BY <1>1, <1>2, <1>3, <1>4, <1>5 DEF Next

LEMMA StaysKnown ==
    ASSUME TypeOK, TypeOK', [Next]_vars, NEW token \in Token \cup {NoToken},
           Known(token)
    PROVE  token # NoToken => token.gen <= newest'[token.chain]
<1>1. CASE token \in Token
  <2>1. /\ token.chain \in Chains /\ token.gen \in Nat
        /\ newest[token.chain] \in Nat /\ newest'[token.chain] \in Nat
    BY <1>1, StoreAssumption DEF Token, TypeOK
  <2>2. token.gen <= newest[token.chain]
    BY <1>1, StoreAssumption DEF Known
  <2>3. newest[token.chain] <= newest'[token.chain]
    BY <2>1, NewestGrows
  <2> QED BY <2>1, <2>2, <2>3
<1> QED BY <1>1

(* Where the tokens of the next state come from.                              *)
LEMMA MemTokens ==
    ASSUME TypeOK, [Next]_vars, NEW i \in Ids
    PROVE  \/ mem'[i] \in {mem[i], NoToken}
           \/ Crash /\ disk # Torn /\ mem'[i] = disk[i]
           \/ \E w \in Workers : /\ Push(w) \/ Update(w)
                                 /\ hand[w] # NoHand /\ hand[w].id = i
                                 /\ mem'[i] = hand[w].token
<1>1. ASSUME NEW w \in Workers, Push(w) \/ Update(w)
      PROVE  \/ mem'[i] = mem[i]
             \/ hand[w] # NoHand /\ hand[w].id = i /\ mem'[i] = hand[w].token
  BY <1>1 DEF Push, Update, TypeOK, Store
<1>2. ASSUME NEW w \in Workers, NEW j \in Ids, Delete(w, j)
      PROVE  mem'[i] \in {mem[i], NoToken}
  BY <1>2 DEF Delete, TypeOK, Store
<1>3. ASSUME Crash
      PROVE  mem'[i] = NoToken \/ (disk # Torn /\ mem'[i] = disk[i])
  BY <1>3 DEF Crash, Loaded, Empty
<1>4. \/ UNCHANGED mem \/ Crash
      \/ \E w \in Workers : \/ Push(w) \/ Update(w)
                            \/ \E j \in Ids : Delete(w, j)
  BY DEF Next, vars, Import, BootImport, AddRaw, Booted, StartRefresh,
         Refreshed, AnswerLost, NotRefreshed, EndRefresh, SaveRead, Truncate,
         Write, SaveFails, EndSave, Disconnect, BrowserTrades
<1> QED BY <1>1, <1>2, <1>3, <1>4

LEMMA ListTokens ==
    ASSUME TypeOK, [Next]_vars, NEW w \in Workers, NEW i \in Ids
    PROVE  list'[w][i] \in {list[w][i], mem[i], NoToken}
<1>1. ASSUME NEW u \in Workers, StartRefresh(u) \/ Disconnect(u)
      PROVE  list'[w][i] \in {list[w][i], mem[i], NoToken}
  BY <1>1 DEF StartRefresh, Disconnect, TypeOK, Empty
<1>2. ASSUME NEW u \in Workers, NEW j \in Ids, DoneWith(u, j)
      PROVE  list'[w][i] \in {list[w][i], NoToken}
  BY <1>2, DoneList
<1>3. ASSUME Crash PROVE list'[w][i] = NoToken
  BY <1>3 DEF Crash, Empty
<1>4. \/ UNCHANGED list \/ Crash
      \/ \E u \in Workers : \/ StartRefresh(u) \/ Disconnect(u)
                            \/ \E j \in Ids : DoneWith(u, j)
  BY DEF Next, vars, Import, BootImport, AddRaw, Booted, Push, Delete,
         Refreshed, AnswerLost, NotRefreshed, Update, EndRefresh, SaveRead,
         Truncate, Write, SaveFails, EndSave, BrowserTrades
<1> QED BY <1>1, <1>2, <1>3, <1>4

LEMMA FileTokens ==
    ASSUME TypeOK, [Next]_vars
    PROVE  /\ disk' \in {disk, Torn} \cup {copy[w] : w \in Workers}
           /\ \A w \in Workers : copy'[w] \in {copy[w], mem, Empty}
<1>1. ASSUME NEW u \in Workers,
             \/ SaveRead(u) \/ Truncate(u) \/ Write(u) \/ SaveFails(u)
             \/ Disconnect(u)
      PROVE  /\ disk' \in {disk, Torn} \cup {copy[w] : w \in Workers}
             /\ \A w \in Workers : copy'[w] \in {copy[w], mem, Empty}
  BY <1>1 DEF SaveRead, Truncate, Write, SaveFails, EndSave, Disconnect, TypeOK
<1>2. ASSUME Crash
      PROVE  disk' = disk /\ \A w \in Workers : copy'[w] = Empty
  BY <1>2 DEF Crash
<1>3. \/ UNCHANGED <<disk, copy>> \/ Crash
      \/ \E u \in Workers : \/ SaveRead(u) \/ Truncate(u) \/ Write(u)
                            \/ SaveFails(u) \/ Disconnect(u)
  BY DEF Next, vars, Import, BootImport, AddRaw, Booted, Push, Delete,
         StartRefresh, Refreshed, AnswerLost, NotRefreshed, Update, EndRefresh,
         BrowserTrades
<1> QED BY <1>1, <1>2, <1>3

(* What a worker takes in hand. *)
LEMMA HandChanges ==
    ASSUME TypeOK, [Next]_vars, NEW w \in Workers
    PROVE  \/ hand'[w] = NoHand
           \/ hand'[w] = hand[w] /\ pc'[w] = pc[w]
           \/ \E c \in Chains : Import(w, c) \/ BootImport(w, c)
           \/ \E i \in Ids : Refreshed(w, i)
<1>1. ASSUME NEW u \in Workers, Push(u) \/ Update(u) \/ Disconnect(u)
      PROVE  hand'[w] = NoHand \/ (hand'[w] = hand[w] /\ pc'[w] = pc[w])
  BY <1>1 DEF Push, Update, Disconnect, Go, TypeOK
<1>2. ASSUME NEW u \in Workers, u # w, NEW c \in Chains, Import(u, c) \/ BootImport(u, c)
      PROVE  hand'[w] = hand[w] /\ pc'[w] = pc[w]
  BY <1>2 DEF Import, BootImport, AddRaw, Go, TypeOK
<1>3. ASSUME NEW u \in Workers, u # w, NEW i \in Ids, Refreshed(u, i)
      PROVE  hand'[w] = hand[w] /\ pc'[w] = pc[w]
  BY <1>3 DEF Refreshed, Go, TypeOK
<1>4. ASSUME NEW u \in Workers,
             \/ StartRefresh(u) \/ EndRefresh(u) \/ SaveRead(u) \/ Truncate(u)
             \/ Write(u) \/ SaveFails(u)
             \/ \E i \in Ids : Delete(u, i) \/ AnswerLost(u, i) \/ NotRefreshed(u, i)
      PROVE  hand'[w] = NoHand \/ (hand'[w] = hand[w] /\ pc'[w] = pc[w])
  <2>1. /\ hand' = hand
        /\ pc[u] \notin {"push", "update"}
        /\ w # u => pc'[w] = pc[w]
    BY <1>4 DEF StartRefresh, EndRefresh, SaveRead, Truncate, Write, SaveFails,
          EndSave, Delete, AnswerLost, NotRefreshed, Go, TypeOK
  <2>2. hand[u] = NoHand
    BY <2>1 DEF TypeOK
  <2> QED BY <2>1, <2>2
<1>5. ASSUME Crash PROVE hand'[w] = NoHand
  BY <1>5 DEF Crash
<1>6. ASSUME NEW c \in Chains, Booted(c) \/ BrowserTrades(c)
      PROVE  hand'[w] = hand[w] /\ pc'[w] = pc[w]
  BY <1>6 DEF Booted, BrowserTrades
<1>7. CASE UNCHANGED vars
  BY <1>7 DEF vars
<1> QED BY <1>1, <1>2, <1>3, <1>4, <1>5, <1>6, <1>7 DEF Next

LEMMA HandTokens ==
    ASSUME TypeOK, [Next]_vars, NEW w \in Workers
    PROVE  \/ hand'[w] = NoHand
           \/ hand'[w] = hand[w] /\ pc'[w] = pc[w]
           \/ /\ pc'[w] = "push"
              /\ \E c \in Chains : hand'[w].token \in {First(c), Exported(c)}
           \/ \E i \in Ids : Refreshed(w, i)
<1>1. ASSUME NEW c \in Chains, Import(w, c) \/ BootImport(w, c)
      PROVE  pc'[w] = "push" /\ hand'[w].token \in {First(c), Exported(c)}
  BY <1>1 DEF Import, BootImport, AddRaw, Go, TypeOK
<1> QED BY <1>1, HandChanges

(* The token a refresh has just received. *)
LEMMA RefreshedToken ==
    ASSUME TypeOK, NEW w \in Workers, NEW i \in Ids, Refreshed(w, i)
    PROVE  /\ list[w][i] = Newest(list[w][i].chain)
           /\ list[w][i].chain \in Chains
           /\ hand'[w].id = i
           /\ hand'[w].token.chain = list[w][i].chain
           /\ hand'[w].token.gen = newest[list[w][i].chain] + 1
           /\ newest' = [newest EXCEPT ![list[w][i].chain] = @ + 1]
           /\ UNCHANGED tab
           /\ pc'[w] = "update"
<1>1. /\ list[w][i] \in Token
      /\ list[w][i].gen < MaxGen
      /\ list[w][i] = Newest(list[w][i].chain)
      /\ newest' = [newest EXCEPT ![list[w][i].chain] = @ + 1]
      /\ UNCHANGED tab
  BY TradeStep DEF Refreshed
<1>2. /\ hand'[w] = [id |-> i, token |-> [list[w][i] EXCEPT !.gen = @ + 1]]
      /\ pc'[w] = "update"
  BY DEF Refreshed, Go, TypeOK
<1>3. hand'[w].token.chain = list[w][i].chain
      /\ hand'[w].token.gen = list[w][i].gen + 1
  BY <1>1, <1>2 DEF Token
<1>4. list[w][i].gen = newest[list[w][i].chain]
  BY <1>1 DEF Newest
<1> QED BY <1>1, <1>2, <1>3, <1>4 DEF Token

LEMMA NothingAheadNext ==
    TypeOK /\ TypeOK' /\ NothingAhead /\ [Next]_vars => NothingAhead'
<1> SUFFICES ASSUME TypeOK, TypeOK', NothingAhead, [Next]_vars
             PROVE  NothingAhead'
  OBVIOUS
<1> DEFINE Knows(token) == token # NoToken => token.gen <= newest'[token.chain]
<1>1. ASSUME NEW token \in Token \cup {NoToken}, Known(token) PROVE Knows(token)
  BY <1>1, StaysKnown
<1>2. ASSUME NEW store \in Store, \A i \in Ids : Known(store[i])
      PROVE  \A i \in Ids : Knows(store[i])
  BY <1>1, <1>2 DEF Store
<1> HIDE DEF Knows
<1>3. Knows(NoToken)
  BY DEF Knows
<1>4. ASSUME NEW w \in Workers, hand[w] # NoHand PROVE Knows(hand[w].token)
  BY <1>1, <1>4 DEF NothingAhead, TypeOK, Hand
<1>5. ASSUME NEW i \in Ids PROVE Knows(mem[i]) /\ Knows(mem'[i])
  <2>1. Knows(mem[i])
    BY <1>2 DEF NothingAhead, TypeOK
  <2>2. disk # Torn => Knows(disk[i])
    BY <1>2 DEF NothingAhead, TypeOK
  <2> QED BY <1>3, <1>4, <2>1, <2>2, MemTokens
<1>6. ASSUME NEW w \in Workers, NEW i \in Ids PROVE Knows(list'[w][i])
  <2>1. Knows(list[w][i])
    BY <1>2 DEF NothingAhead, TypeOK
  <2> QED BY <1>3, <1>5, <2>1, ListTokens
<1>7. ASSUME NEW w \in Workers, NEW i \in Ids
      PROVE  Knows(copy[w][i]) /\ Knows(copy'[w][i])
  <2>1. Knows(copy[w][i])
    BY <1>2 DEF NothingAhead, TypeOK
  <2>2. Knows(Empty[i])
    BY <1>3 DEF Empty
  <2> QED BY <1>5, <2>1, <2>2, FileTokens
<1>8. ASSUME disk' # Torn, NEW i \in Ids PROVE Knows(disk'[i])
  <2>1. disk # Torn => Knows(disk[i])
    BY <1>2 DEF NothingAhead, TypeOK
  <2> QED BY <1>7, <1>8, <2>1, FileTokens
<1>9. ASSUME NEW w \in Workers, hand'[w] # NoHand PROVE Knows(hand'[w].token)
  <2>1. ASSUME NEW c \in Chains, hand'[w].token \in {First(c), Exported(c)}
        PROVE  Knows(hand'[w].token)
    <3>1. First(c) \in Token /\ Exported(c) \in Token
      BY CookieTokens
    <3>2. Known(First(c)) /\ Known(Exported(c))
      BY StoreAssumption DEF Known, First, Exported, NothingAhead, TypeOK
    <3> QED BY <1>1, <2>1, <3>1, <3>2
  <2>2. ASSUME NEW i \in Ids, Refreshed(w, i) PROVE Knows(hand'[w].token)
    <3>1. hand'[w].token.gen = newest'[hand'[w].token.chain]
      BY <2>2, RefreshedToken DEF TypeOK
    <3>2. newest'[hand'[w].token.chain] \in Nat
      BY <2>2, RefreshedToken, StoreAssumption DEF TypeOK
    <3> QED BY <3>1, <3>2 DEF Knows
  <2> QED BY <1>4, <1>9, <2>1, <2>2, HandTokens
<1>10. ASSUME NEW c \in Chains PROVE tab'[c] <= newest'[c]
  <2>1. ASSUME NEW d \in Chains, BrowserTrades(d) PROVE tab'[c] <= newest'[c]
    BY <2>1, StoreAssumption DEF BrowserTrades, NothingAhead, TypeOK
  <2>2. CASE UNCHANGED tab
    BY <2>2, NewestGrows, StoreAssumption DEF NothingAhead, TypeOK
  <2> QED BY <2>1, <2>2, TabChanges
<1> QED BY <1>5, <1>6, <1>7, <1>8, <1>9, <1>10 DEF NothingAhead, Known, Knows

(* While one worker holds the newest token of a chain nobody else can trade   *)
(* for that chain; and once a token is traded, nothing older equals it.       *)
LEMMA TradedNext ==
    TypeOK /\ TypeOK' /\ NothingAhead /\ TradedTokenIsNew /\ [Next]_vars
        => TradedTokenIsNew'
<1> SUFFICES ASSUME TypeOK, TypeOK', NothingAhead, TradedTokenIsNew, [Next]_vars,
                    NEW w \in Workers, pc'[w] = "update"
             PROVE  /\ hand'[w].token =
                         [chain |-> hand'[w].token.chain,
                          gen |-> newest'[hand'[w].token.chain]]
                    /\ hand'[w].token.gen > tab'[hand'[w].token.chain]
                    /\ \A i \in Ids : mem'[i] # hand'[w].token
                    /\ \A u \in Workers :
                        /\ \A i \in Ids : list'[u][i] # hand'[w].token
                        /\ u # w => hand'[u] # hand'[w] /\
                             (hand'[u] # NoHand => hand'[u].token # hand'[w].token)
  BY DEF TradedTokenIsNew, Newest
<1>0. hand'[w] \in Hand /\ hand'[w] # NoHand
  BY DEF TypeOK
<1>1. CASE \E i \in Ids : Refreshed(w, i)
  <2>1. PICK i \in Ids : Refreshed(w, i)
    BY <1>1
  <2> DEFINE c   == list[w][i].chain
             new == hand'[w].token
  <2>2. /\ c \in Chains /\ new.chain = c /\ new.gen = newest[c] + 1
        /\ newest'[c] = new.gen
        /\ newest[c] \in Nat
        /\ tab'[c] = tab[c]
    BY <2>1, RefreshedToken, StoreAssumption DEF TypeOK
  <2>a. new.gen > tab'[new.chain]
    BY <2>2, StoreAssumption DEF NothingAhead, TypeOK
  <2>3. ASSUME NEW token \in Token \cup {NoToken}, Known(token)
        PROVE  token # new
    BY <1>0, <2>2, <2>3, StoreAssumption DEF Known, Token, Hand
  <2>4. ASSUME NEW j \in Ids PROVE mem[j] # new /\ mem' = mem
    BY <2>1, <2>3 DEF NothingAhead, TypeOK, Store, Refreshed
  <2>5. ASSUME NEW u \in Workers, NEW j \in Ids PROVE list'[u][j] # new
    <3>1. list[u][j] # new /\ NoToken # new
      BY <2>3 DEF NothingAhead, TypeOK, Store, Known
    <3> QED BY <2>1, <3>1, DoneList DEF Refreshed
  <2>6. ASSUME NEW u \in Workers, u # w, hand[u] # NoHand
        PROVE  hand[u].token # new
    BY <2>3, <2>6 DEF NothingAhead, TypeOK, Hand
  <2>7. \A u \in Workers : u # w => hand'[u] = hand[u]
    BY <2>1 DEF Refreshed, TypeOK
  <2>8. new = [chain |-> new.chain, gen |-> newest'[new.chain]]
    BY <1>0, <2>2 DEF Hand, Token
  <2> QED BY <1>0, <2>a, <2>4, <2>5, <2>6, <2>7, <2>8
<1>2. CASE ~\E i \in Ids : Refreshed(w, i)
  <2>1. hand'[w] = hand[w] /\ pc[w] = "update"
    BY <1>0, <1>2, HandTokens
  <2> DEFINE tok == hand[w].token
  <2>t. tok = Newest(tok.chain) /\ tok.gen > tab[tok.chain]
    BY <2>1 DEF TradedTokenIsNew
  <2>m. \A i \in Ids : mem[i] # tok
    BY <2>1 DEF TradedTokenIsNew
  <2>l. \A u \in Workers, i \in Ids : list[u][i] # tok
    BY <2>1 DEF TradedTokenIsNew
  <2>h. ASSUME NEW u \in Workers, u # w
        PROVE  hand[u] # hand[w] /\ (hand[u] # NoHand => hand[u].token # tok)
    BY <2>1, <2>h DEF TradedTokenIsNew
  <2>3. tok \in Token /\ hand[w] \in Hand /\ tok.chain \in Chains
    BY <1>0, <2>1 DEF Hand, Token
  <2>n. /\ tok = [chain |-> tok.chain, gen |-> newest[tok.chain]]
        /\ tok.gen = newest[tok.chain]
    BY <2>t, <2>3 DEF Newest, Token
  <2>w. hand'[w].token = tok
    BY <2>1
  <2> HIDE DEF tok
  <2>b. ASSUME NEW c \in Chains, BrowserTrades(c) PROVE c # tok.chain
    BY <2>b, <2>t, <2>n, StoreAssumption DEF BrowserTrades, TypeOK
  <2>4. newest'[tok.chain] = newest[tok.chain]
    <3>1. ASSUME NEW u \in Workers, NEW i \in Ids, list[u][i] # NoToken, Trade(u, i)
          PROVE  newest'[tok.chain] = newest[tok.chain]
      <4>1. /\ list[u][i] = [chain |-> list[u][i].chain,
                              gen |-> newest[list[u][i].chain]]
            /\ newest' = [newest EXCEPT ![list[u][i].chain] = @ + 1]
        BY ONLY <3>1, TypeOK, TradeStep DEF Newest
      <4>2. list[u][i].chain # tok.chain
        BY <2>l, <2>n, <4>1
      <4> QED BY <4>1, <4>2, <2>3 DEF TypeOK
    <3>1a. ASSUME NEW c \in Chains, BrowserTrades(c)
           PROVE  newest'[tok.chain] = newest[tok.chain]
      BY <2>3, <2>b, <3>1a DEF BrowserTrades, TypeOK
    <3>2. \/ UNCHANGED newest
          \/ \E c \in Chains : BrowserTrades(c)
          \/ \E u \in Workers, i \in Ids : list[u][i] # NoToken /\ Trade(u, i)
      BY DEF Next, vars, Import, BootImport, AddRaw, Booted, Push, Delete,
             StartRefresh, Refreshed, AnswerLost, NotRefreshed, Update,
             EndRefresh, SaveRead, Truncate, Write, SaveFails, EndSave,
             Disconnect, Crash
    <3> QED BY <3>1, <3>1a, <3>2
  <2>c. tab'[tok.chain] = tab[tok.chain]
    <3>1. ASSUME NEW c \in Chains, BrowserTrades(c)
          PROVE  tab'[tok.chain] = tab[tok.chain]
      BY <2>3, <2>b, <3>1 DEF BrowserTrades, TypeOK
    <3> QED BY <3>1, TabChanges
  <2>5. ~Crash /\ ~Update(w) /\ ~Push(w)
    BY <2>1, <1>0 DEF Crash, Update, Push, TypeOK
  <2>6. \A i \in Ids : mem'[i] # tok
    <3>1. ASSUME NEW u \in Workers, NEW i \in Ids, Push(u) \/ Update(u)
          PROVE  mem'[i] # tok
      <4>1. u # w /\ hand[u] # NoHand
        BY <2>5, <3>1 DEF Push, Update, TypeOK
      <4>2. mem'[i] \in {mem[i], hand[u].token}
        BY <3>1 DEF Push, Update, TypeOK, Store
      <4> QED BY <2>m, <2>h, <4>1, <4>2
    <3>2. ASSUME NEW u \in Workers, NEW i \in Ids, NEW j \in Ids, Delete(u, j)
          PROVE  mem'[i] # tok
      BY <2>m, <2>3, <3>2, StoreAssumption DEF Delete, TypeOK, Store
    <3>3. \/ UNCHANGED mem
          \/ \E u \in Workers : \/ Push(u) \/ Update(u)
                                \/ \E j \in Ids : Delete(u, j)
      BY <2>5 DEF Next, vars, Import, BootImport, AddRaw, Booted, StartRefresh,
             Refreshed, AnswerLost, NotRefreshed, EndRefresh, SaveRead,
             Truncate, Write, SaveFails, EndSave, Disconnect, BrowserTrades
    <3> QED BY <2>m, <3>1, <3>2, <3>3
  <2>7. \A u \in Workers, i \in Ids : list'[u][i] # tok
    BY <2>l, <2>m, <2>3, ListTokens, StoreAssumption
  <2>8. ASSUME NEW u \in Workers, u # w, hand'[u] # NoHand
        PROVE  hand'[u].token # tok
    <3>1. ASSUME NEW i \in Ids, Refreshed(u, i)
          PROVE  hand'[u].token # tok
      <4>1. list[u][i].chain # tok.chain
        BY <2>l, <2>n, <3>1, RefreshedToken DEF Newest
      <4> QED BY <4>1, <3>1, RefreshedToken
    <3>2. ASSUME NEW c \in Chains, hand'[u].token \in {First(c), Exported(c)}
          PROVE  hand'[u].token # tok
      <4>1. First(c) # tok /\ Exported(c) # tok
        BY <2>t, <2>3, StoreAssumption DEF First, Exported, TypeOK, Token
      <4> QED BY <3>2, <4>1
    <3> QED BY <2>h, <2>8, <3>1, <3>2, HandTokens
  <2>9. \A u \in Workers : u # w =>
           hand'[u] # hand'[w] /\ (hand'[u] # NoHand => hand'[u].token # tok)
    BY <1>0, <2>8, <2>w
  <2> QED BY <2>t, <2>n, <2>w, <2>c, <2>4, <2>6, <2>7, <2>9
<1> QED BY <1>1, <1>2

LEMMA NewInit == Init => NewInv
BY StoreAssumption
   DEF Init, NewInv, NothingAhead, TradedTokenIsNew, Known, Empty

LEMMA NewInvariant == Spec => []NewInv
<1>1. TypeOK /\ TypeOK' /\ NewInv /\ [Next]_vars => NewInv'
  BY NothingAheadNext, TradedNext DEF NewInv
<1> QED BY <1>1, NewInit, StoreTypes, PTL DEF Spec

(* A token just traded is nowhere else: no credential, no list of another     *)
(* refresh and no other hand has it, whatever crashes, is lost or is deleted, *)
(* so it is never spent before it is stored.                                  *)
THEOREM TradedIsNew == Spec => []TradedTokenIsNew
<1>1. NewInv => TradedTokenIsNew
  BY DEF NewInv
<1> QED BY <1>1, NewInvariant, PTL

-------------------------------------------------------------------------------
(* The file.  The strengthening: once a save has begun alone, and as long as   *)
(* none overlaps it, fails or is skipped, one worker saves at a time, its     *)
(* copy is the list unless another save is due, and the file is torn while it *)
(* writes.                                                                    *)
NoneDue    == \A w \in Workers : pc[w] # "read"
NoneSaving == \A w \in Workers : ~Saving(w)

FileInv ==
    ~spoilt =>
        /\ \A w \in Workers : Saving(w) =>
            /\ \A u \in Workers \ {w} : ~Saving(u)
            /\ pc[w] = "write" => disk = Torn
            /\ NoneDue => copy[w] = mem
        /\ NoneDue /\ NoneSaving => Loaded = mem

(* A worker that neither saves nor is about to goes from step to step. *)
LEMMA FileAside ==
    ASSUME TypeOK, FileInv, NEW w \in Workers, pc[w] \notin {"read", "truncate", "write"},
           NEW l \in {"idle", "push", "refresh", "update", "read"}, Go(w, l),
           l = "read" \/ mem' = mem, UNCHANGED <<disk, copy, spoilt>>
    PROVE  FileInv'
<1>1. pc'[w] = l /\ \A u \in Workers \ {w} : pc'[u] = pc[u]
  BY DEF Go, TypeOK
<1>2. \A u \in Workers : Saving(u)' <=> Saving(u)
  BY <1>1 DEF Saving
<1>3. \A u \in Workers : pc'[u] = "write" <=> pc[u] = "write"
  BY <1>1
<1>4. CASE l = "read"
  BY <1>1, <1>2, <1>3, <1>4 DEF FileInv, NoneDue
<1>5. CASE l # "read"
  <2>1. NoneDue' <=> NoneDue
    BY <1>1, <1>5 DEF NoneDue
  <2>2. NoneSaving' <=> NoneSaving
    BY <1>2 DEF NoneSaving
  <2>3. Loaded' = Loaded
    BY DEF Loaded
  <2> QED BY <1>2, <1>3, <1>5, <2>1, <2>2, <2>3 DEF FileInv
<1> QED BY <1>4, <1>5

LEMMA FileNext == TypeOK /\ FileInv /\ [Next]_vars => FileInv'
<1> SUFFICES ASSUME TypeOK, FileInv, [Next]_vars PROVE FileInv'
  OBVIOUS
<1>1. ASSUME NEW w \in Workers, NEW c \in Chains, Import(w, c) \/ BootImport(w, c)
      PROVE  FileInv'
  BY <1>1, FileAside DEF Import, BootImport, AddRaw
<1>2. ASSUME NEW w \in Workers,
             \/ Push(w) \/ Update(w) \/ StartRefresh(w) \/ EndRefresh(w)
             \/ \E i \in Ids : Delete(w, i) \/ Refreshed(w, i)
      PROVE  FileInv'
  BY <1>2, FileAside DEF Push, Update, StartRefresh, EndRefresh, Delete, Refreshed
<1>3. ASSUME UNCHANGED <<mem, disk, pc, copy, spoilt>> PROVE FileInv'
  BY <1>3 DEF FileInv, NoneDue, NoneSaving, Saving, Loaded
<1>4. ASSUME NEW w \in Workers, NEW i \in Ids, AnswerLost(w, i) \/ NotRefreshed(w, i)
      PROVE  FileInv'
  BY <1>3, <1>4 DEF AnswerLost, NotRefreshed
<1>5. ASSUME NEW c \in Chains, Booted(c) \/ BrowserTrades(c) PROVE FileInv'
  BY <1>3, <1>5 DEF Booted, BrowserTrades
<1>6. ASSUME NEW w \in Workers, SaveRead(w) PROVE FileInv'
  <2> SUFFICES ASSUME ~spoilt' PROVE FileInv'
    BY DEF FileInv
  <2>1. NoneSaving
    BY <1>6 DEF SaveRead, NoneSaving
  <2>2. pc'[w] = "truncate" /\ \A u \in Workers \ {w} : pc'[u] = pc[u]
    BY <1>6 DEF SaveRead, Go, TypeOK
  <2>3. copy'[w] = mem /\ mem' = mem
    BY <1>6 DEF SaveRead, TypeOK
  <2>4. \A u \in Workers \ {w} : ~Saving(u)'
    BY <2>1, <2>2 DEF NoneSaving, Saving
  <2>5. Saving(w)'
    BY <2>2 DEF Saving
  <2> QED BY <2>2, <2>3, <2>4, <2>5 DEF FileInv, NoneSaving
<1>7. ASSUME NEW w \in Workers, Truncate(w) PROVE FileInv'
  <2>1. /\ pc[w] = "truncate" /\ disk' = Torn
        /\ UNCHANGED <<mem, copy, spoilt>>
    BY <1>7 DEF Truncate
  <2>2. pc'[w] = "write" /\ \A u \in Workers \ {w} : pc'[u] = pc[u]
    BY <1>7 DEF Truncate, Go, TypeOK
  <2>3. \A u \in Workers : Saving(u)' <=> Saving(u)
    BY <2>1, <2>2 DEF Saving
  <2>4. Saving(w)'
    BY <2>2 DEF Saving
  <2>5. NoneDue' <=> NoneDue
    BY <2>1, <2>2 DEF NoneDue
  <2> QED BY <2>1, <2>3, <2>4, <2>5 DEF FileInv, NoneSaving
<1>8. ASSUME NEW w \in Workers, Write(w) PROVE FileInv'
  <2> SUFFICES ASSUME ~spoilt PROVE FileInv'
    BY <1>8 DEF FileInv, Write
  <2>1. /\ pc[w] = "write" /\ UNCHANGED <<mem, spoilt>>
        /\ disk' = copy[w] \/ (disk # Torn /\ disk' = Torn)
    BY <1>8 DEF Write, EndSave
  <2>2. /\ \A u \in Workers \ {w} : ~Saving(u)
        /\ disk = Torn
        /\ NoneDue => copy[w] = mem
    BY <2>1 DEF FileInv, Saving
  <2>3. /\ pc'[w] \in {"idle", "refresh"}
        /\ \A u \in Workers \ {w} : pc'[u] = pc[u]
    BY <1>8 DEF Write, EndSave, Go, TypeOK
  <2>4. \A u \in Workers : ~Saving(u)'
    BY <2>2, <2>3 DEF Saving
  <2>5. NoneDue' <=> NoneDue
    BY <2>1, <2>3 DEF NoneDue
  <2>6. copy[w] # Torn
    BY StoreAssumption DEF TypeOK
  <2>7. Loaded' = copy[w]
    BY <2>1, <2>2, <2>6 DEF Loaded
  <2> QED BY <2>1, <2>2, <2>4, <2>5, <2>7 DEF FileInv
<1>8a. ASSUME NEW w \in Workers, SaveFails(w) PROVE FileInv'
  BY <1>8a DEF SaveFails, FileInv
<1>9. ASSUME NEW w \in Workers, Disconnect(w) PROVE FileInv'
  <2>1. CASE pc[w] = "read"
    BY <1>9, <2>1 DEF Disconnect, FileInv
  <2>2. CASE pc[w] # "read"
    <3>1. /\ pc[w] \notin {"read", "truncate", "write"} /\ Go(w, "idle")
          /\ UNCHANGED <<mem, disk, copy>>
      BY <1>9, <2>2 DEF Disconnect
    <3>2. spoilt' = spoilt
      BY <1>9, <2>2 DEF Disconnect, TypeOK
    <3> QED BY <3>1, <3>2, FileAside
  <2> QED BY <2>1, <2>2
<1>10. ASSUME Crash PROVE FileInv'
  <2>1. mem' = Loaded /\ disk' = disk /\ \A w \in Workers : pc'[w] = "idle"
    BY <1>10 DEF Crash
  <2> QED BY <2>1 DEF FileInv, Saving, Loaded
<1>11. CASE UNCHANGED vars
  BY <1>3, <1>11 DEF vars
<1> QED
  BY <1>1, <1>2, <1>4, <1>5, <1>6, <1>7, <1>8, <1>8a, <1>9, <1>10, <1>11 DEF Next

(* Whenever no save is due or under way the file has what the list has,       *)
(* unless since the last save that began alone one overlapped, failed or was  *)
(* skipped (save ignores a failed write; the next that runs alone repairs it). *)
THEOREM FileKeepsUp == Spec => []QuietFileCurrent
<1>1. Init => FileInv
  BY StoreAssumption, EmptyStore DEF Init, FileInv, Saving, Loaded
<1>2. FileInv => QuietFileCurrent
  BY DEF FileInv, QuietFileCurrent, NoneDue, NoneSaving
<1> QED BY <1>1, <1>2, FileNext, StoreTypes, PTL DEF Spec

-------------------------------------------------------------------------------
(* A chain stays alive.  The strengthening: the tokens kept under one id,     *)
(* wherever they are, are of one chain; an unused id has none; and an id      *)
(* about to be pushed has its token in that hand only.                        *)
Kept(i, token) ==
    \/ mem[i] = token
    \/ disk # Torn /\ disk[i] = token
    \/ \E w \in Workers :
        \/ list[w][i] = token
        \/ copy[w][i] = token
        \/ hand[w] # NoHand /\ hand[w].id = i /\ hand[w].token = token

OneChain ==
    \A i \in Ids, a \in Token : Kept(i, a) =>
        /\ i \notin unused
        /\ \A b \in Token : Kept(i, b) => a.chain = b.chain

PushFresh ==
    \A w \in Workers : pc[w] = "push" =>
        /\ mem[hand[w].id] = NoToken
        /\ \A u \in Workers :
            /\ list[u][hand[w].id] = NoToken
            /\ u # w /\ hand[u] # NoHand => hand[u].id # hand[w].id

ChainInv == OneChain /\ PushFresh

Importing == \E w \in Workers, c \in Chains : Import(w, c) \/ BootImport(w, c)

(* Unless an id is given its first token, its tokens are of the chain it had. *)
LEMMA KeptFrom ==
    ASSUME TypeOK, TypeOK', [Next]_vars, ~Importing,
           NEW i \in Ids, NEW token \in Token, Kept(i, token)'
    PROVE  \E old \in Token : Kept(i, old) /\ old.chain = token.chain
<1> DEFINE Goal == \E old \in Token : Kept(i, old) /\ old.chain = token.chain
<1>0. token # NoToken
  BY StoreAssumption
<1>1. ASSUME Kept(i, token) PROVE Goal
  BY <1>1
<1>2. CASE mem'[i] = token
  BY <1>0, <1>1, <1>2, MemTokens DEF Kept
<1>3. CASE disk' # Torn /\ disk'[i] = token
  BY <1>1, <1>3, FileTokens DEF Kept
<1>4. ASSUME NEW w \in Workers, list'[w][i] = token PROVE Goal
  BY <1>0, <1>1, <1>4, ListTokens DEF Kept
<1>5. ASSUME NEW w \in Workers, copy'[w][i] = token PROVE Goal
  <2>1. copy'[w] \in {copy[w], mem, Empty}
    BY FileTokens
  <2>2. Empty[i] # token
    BY <1>0 DEF Empty
  <2> QED BY <1>1, <1>5, <2>1, <2>2 DEF Kept
<1>6. ASSUME NEW w \in Workers, hand'[w] # NoHand, hand'[w].id = i, hand'[w].token = token
      PROVE  Goal
  <2>1. CASE hand'[w] = hand[w]
    BY <1>1, <1>6, <2>1 DEF Kept
  <2>2. ASSUME NEW j \in Ids, Refreshed(w, j) PROVE Goal
    <3>1. j = i /\ token.chain = list[w][i].chain
      BY <1>6, <2>2, RefreshedToken
    <3>2. list[w][i] \in Token
      BY <2>2, <3>1 DEF Refreshed, TypeOK, Store
    <3> QED BY <3>1, <3>2 DEF Kept
  <2> QED BY <1>6, <2>1, <2>2, HandChanges DEF Importing
<1> QED BY <1>2, <1>3, <1>4, <1>5, <1>6 DEF Kept

LEMMA UnusedShrinks ==
    ASSUME [Next]_vars, ~Importing
    PROVE  unused' = unused
BY DEF Next, vars, Importing, Booted, Push, Delete, StartRefresh, Refreshed, AnswerLost,
       NotRefreshed, Update, EndRefresh, SaveRead, Truncate, Write, SaveFails,
       EndSave, Disconnect, BrowserTrades, Crash

(* An import gives an unused id its first token, and changes nothing else.    *)
LEMMA ImportGives ==
    ASSUME TypeOK, OneChain, NEW w \in Workers, NEW c \in Chains,
           Import(w, c) \/ BootImport(w, c)
    PROVE  /\ pc[w] = "idle" /\ hand[w] = NoHand
           /\ UNCHANGED <<mem, disk, list, copy>>
           /\ \E i \in unused, first \in Token :
                /\ unused' = unused \ {i}
                /\ \A token \in Token : ~Kept(i, token)
                /\ hand'[w] = [id |-> i, token |-> first]
           /\ \A u \in Workers \ {w} : hand'[u] = hand[u] /\ pc'[u] = pc[u]
<1>1. PICK first \in Token : pc[w] = "idle" /\ AddRaw(w, first)
  BY CookieTokens DEF Import, BootImport
<1>2. hand[w] = NoHand
  BY <1>1 DEF TypeOK
<1>3. PICK i \in unused :
        /\ unused' = unused \ {i}
        /\ hand' = [hand EXCEPT ![w] = [id |-> i, token |-> first]]
  BY <1>1 DEF AddRaw
<1>4. \A token \in Token : ~Kept(i, token)
  BY <1>3 DEF OneChain, TypeOK
<1>6. /\ hand'[w] = [id |-> i, token |-> first]
      /\ \A u \in Workers \ {w} : hand'[u] = hand[u] /\ pc'[u] = pc[u]
      /\ UNCHANGED <<mem, disk, list, copy>>
  BY <1>1, <1>3 DEF AddRaw, Go, TypeOK
<1> QED BY <1>1, <1>2, <1>3, <1>4, <1>6

LEMMA OneChainNext ==
    ASSUME TypeOK, TypeOK', OneChain, [Next]_vars
    PROVE  OneChain'
<1>1. CASE ~Importing
  <2> SUFFICES ASSUME NEW i \in Ids, NEW a \in Token, Kept(i, a)'
               PROVE  /\ i \notin unused'
                      /\ \A b \in Token : Kept(i, b)' => a.chain = b.chain
    BY DEF OneChain
  <2>1. PICK x \in Token : Kept(i, x) /\ x.chain = a.chain
    BY <1>1, KeptFrom
  <2>2. ASSUME NEW b \in Token, Kept(i, b)' PROVE a.chain = b.chain
    <3>1. PICK y \in Token : Kept(i, y) /\ y.chain = b.chain
      BY <1>1, <2>2, KeptFrom
    <3> QED BY <2>1, <3>1 DEF OneChain
  <2> QED BY <1>1, <2>1, <2>2, UnusedShrinks DEF OneChain
<1>2. ASSUME NEW w \in Workers, NEW c \in Chains, Import(w, c) \/ BootImport(w, c)
      PROVE  OneChain'
  <2>1. /\ hand[w] = NoHand
        /\ UNCHANGED <<mem, disk, list, copy>>
        /\ \A u \in Workers \ {w} : hand'[u] = hand[u]
    BY <1>2, ImportGives
  <2>2. PICK i \in unused, first \in Token :
          /\ unused' = unused \ {i}
          /\ \A token \in Token : ~Kept(i, token)
          /\ hand'[w] = [id |-> i, token |-> first]
    BY <1>2, ImportGives
  <2>3. ASSUME NEW j \in Ids, NEW token \in Token, Kept(j, token)'
        PROVE  \/ j # i /\ Kept(j, token)
               \/ j = i /\ token = first
    <3>1. Kept(j, token) \/ (j = i /\ token = first)
      BY <2>1, <2>2, <2>3 DEF Kept
    <3> QED BY <2>2, <3>1
  <2> QED BY <2>2, <2>3 DEF OneChain
<1> QED BY <1>1, <1>2 DEF Importing

LEMMA PushFreshNext ==
    ASSUME TypeOK, TypeOK', OneChain, PushFresh, [Next]_vars
    PROVE  PushFresh'
<1> SUFFICES ASSUME NEW w \in Workers, pc'[w] = "push"
             PROVE  /\ mem'[hand'[w].id] = NoToken
                    /\ \A u \in Workers :
                        /\ list'[u][hand'[w].id] = NoToken
                        /\ u # w /\ hand'[u] # NoHand => hand'[u].id # hand'[w].id
  BY DEF PushFresh
<1>0. hand'[w] # NoHand /\ hand'[w] \in Hand
  BY DEF TypeOK
<1>1. ASSUME NEW c \in Chains, Import(w, c) \/ BootImport(w, c)
      PROVE  /\ mem'[hand'[w].id] = NoToken
             /\ \A u \in Workers :
                 /\ list'[u][hand'[w].id] = NoToken
                 /\ u # w /\ hand'[u] # NoHand => hand'[u].id # hand'[w].id
  <2>1. /\ UNCHANGED <<mem, list>>
        /\ \A u \in Workers \ {w} : hand'[u] = hand[u]
    BY <1>1, ImportGives
  <2>2. PICK i \in unused, first \in Token :
          /\ \A token \in Token : ~Kept(i, token)
          /\ hand'[w] = [id |-> i, token |-> first]
    BY <1>1, ImportGives
  <2>3. i \in Ids /\ hand'[w].id = i
    BY <2>2 DEF TypeOK
  <2>4. mem[i] = NoToken /\ \A u \in Workers : list[u][i] = NoToken
    BY <2>2, <2>3 DEF Kept, TypeOK, Store
  <2>5. \A u \in Workers : hand[u] # NoHand => hand[u].id # i
    BY <2>2, <2>3 DEF Kept, TypeOK, Hand
  <2> QED BY <2>1, <2>3, <2>4, <2>5
<1>2. CASE hand'[w] = hand[w] /\ pc'[w] = pc[w]
  <2> DEFINE i == hand[w].id
  <2>1. /\ i \in Ids /\ hand[w] # NoHand /\ hand[w].token \in Token /\ pc[w] = "push"
    BY <1>0, <1>2 DEF Hand
  <2>2. /\ mem[i] = NoToken
        /\ \A u \in Workers :
            /\ list[u][i] = NoToken
            /\ u # w /\ hand[u] # NoHand => hand[u].id # i
    BY <2>1 DEF PushFresh
  <2>3. ~Push(w) /\ ~Update(w) /\ ~Crash
    BY <1>0, <1>2, <2>1 DEF Push, Update, Crash, Go, TypeOK
  <2> HIDE DEF i
  <2>4. mem'[i] = NoToken
    BY <2>1, <2>2, <2>3, MemTokens
  <2>5. ASSUME NEW u \in Workers PROVE list'[u][i] = NoToken
    BY <2>1, <2>2, ListTokens
  <2>6. ASSUME NEW u \in Workers, u # w, hand'[u] # NoHand PROVE hand'[u].id # i
    <3>1. CASE hand'[u] = hand[u]
      BY <2>2, <2>6, <3>1
    <3>2. ASSUME NEW c \in Chains, Import(u, c) \/ BootImport(u, c)
          PROVE  hand'[u].id # i
      <4>1. PICK j \in unused, first \in Token :
              /\ \A token \in Token : ~Kept(j, token)
              /\ hand'[u] = [id |-> j, token |-> first]
        BY <3>2, ImportGives
      <4>2. Kept(i, hand[w].token)
        BY <2>1 DEF Kept, i
      <4> QED BY <2>1, <4>1, <4>2
    <3>3. ASSUME NEW j \in Ids, Refreshed(u, j) PROVE hand'[u].id # i
      <4>1. hand'[u].id = j /\ list[u][j] # NoToken
        BY <3>3, RefreshedToken DEF Refreshed
      <4> QED BY <2>2, <4>1
    <3> QED BY <2>6, <3>1, <3>2, <3>3, HandChanges
  <2> QED BY <1>2, <2>4, <2>5, <2>6 DEF i
<1>3. ~\E i \in Ids : Refreshed(w, i)
  BY RefreshedToken
<1> QED BY <1>0, <1>1, <1>2, <1>3, HandChanges

LEMMA ChainInit == Init => ChainInv
BY StoreAssumption DEF Init, ChainInv, OneChain, PushFresh, Kept, Empty

LEMMA ChainInvariant == Spec => []ChainInv
<1>1. TypeOK /\ TypeOK' /\ ChainInv /\ [Next]_vars => ChainInv'
  BY OneChainNext, PushFreshNext DEF ChainInv
<1> QED BY <1>1, ChainInit, StoreTypes, PTL DEF Spec

(* What a credential about to be stored replaces is of the same chain.        *)
LEMMA SameChain ==
    ASSUME TypeOK, OneChain, NEW w \in Workers, hand[w] # NoHand,
           mem[hand[w].id] # NoToken
    PROVE  mem[hand[w].id].chain = hand[w].token.chain
<1>1. hand[w].id \in Ids /\ hand[w].token \in Token /\ mem[hand[w].id] \in Token
  BY DEF TypeOK, Hand, Store
<1>2. Kept(hand[w].id, mem[hand[w].id]) /\ Kept(hand[w].id, hand[w].token)
  BY DEF Kept
<1> QED BY <1>1, <1>2 DEF OneChain

InUpdate(w, token) ==
    pc[w] = "update" /\ hand[w].token = token /\ mem[hand[w].id] # NoToken

(* A step that leaves the list, the service and the hands alone loses nothing. *)
LEMMA AliveAside ==
    ASSUME NEW c \in Chains, Alive(c), UNCHANGED <<mem, newest>>,
           boot' = boot \/ ~(c \in boot),
           \A u \in Workers : pc[u] = "update" => pc'[u] = "update" /\ hand'[u] = hand[u]
    PROVE  Alive(c)'
BY DEF Alive, Newest

LEMMA ChainStep ==
    ASSUME TypeOK, TypeOK', NewInv, ChainInv, [Next]_vars,
           NEW c \in Chains, Alive(c)
    PROVE  Alive(c)' \/ MayLose(c)
<1> DEFINE Goal == Alive(c)' \/ MayLose(c)
<1>t. newest[c] \in 0..MaxGen /\ Newest(c) \in Token
  BY DEF TypeOK, Newest, Token
<1>p. PICK tok \in Token : tok = Newest(c)
  BY <1>t
<1>0. /\ newest[c] \in 0..MaxGen /\ tok # NoToken
      /\ tok.chain = c /\ tok.gen = newest[c]
  BY <1>t, <1>p, StoreAssumption DEF Newest
<1>a. \/ \E i \in Ids : mem[i] = tok
      \/ \E w \in Workers : InUpdate(w, tok)
      \/ c \in boot /\ newest[c] = 0
  BY <1>p DEF Alive, InUpdate
<1>b. ASSUME newest'[c] = newest[c],
             \/ \E i \in Ids : mem'[i] = tok
             \/ \E w \in Workers : InUpdate(w, tok)'
             \/ c \in boot' /\ newest[c] = 0
      PROVE  Goal
  <2>1. Newest(c)' = tok
    BY <1>b, <1>p DEF Newest
  <2> QED BY <1>b, <2>1 DEF Alive, InUpdate
<1>1. ASSUME NEW w \in Workers, pc[w] # "update",
             \A u \in Workers \ {w} : pc'[u] = pc[u] /\ hand'[u] = hand[u],
             UNCHANGED <<mem, newest, boot>>
      PROVE  Goal
  BY <1>1, AliveAside
<1>2. ASSUME NEW w \in Workers, NEW d \in Chains, Import(w, d) \/ BootImport(w, d)
      PROVE  Goal
  <2>1. pc[w] = "idle" /\ UNCHANGED <<mem, newest, boot>>
    BY <1>2 DEF Import, BootImport, AddRaw
  <2>2. \A u \in Workers \ {w} : pc'[u] = pc[u] /\ hand'[u] = hand[u]
    BY <1>2, ImportGives DEF ChainInv
  <2> QED BY <1>1, <2>1, <2>2
<1>3. ASSUME NEW w \in Workers,
             \/ StartRefresh(w) \/ EndRefresh(w) \/ SaveRead(w) \/ Truncate(w)
             \/ Write(w) \/ SaveFails(w)
             \/ \E i \in Ids : NotRefreshed(w, i)
      PROVE  Goal
  <2>1. /\ pc[w] # "update" /\ UNCHANGED <<mem, newest, boot, hand>>
        /\ \A u \in Workers \ {w} : pc'[u] = pc[u]
    BY <1>3 DEF StartRefresh, EndRefresh, SaveRead, Truncate, Write, SaveFails,
          EndSave, NotRefreshed, Go, TypeOK
  <2> QED BY <1>1, <2>1
<1>4. ASSUME NEW d \in Chains, Booted(d) PROVE Goal
  <2>1. UNCHANGED <<mem, newest, pc, hand>> /\ boot' = boot \ {d}
    BY <1>4 DEF Booted
  <2>2. CASE c # d
    BY <1>a, <1>b, <2>1, <2>2 DEF InUpdate
  <2>3. CASE c = d /\ newest[c] = 0
    <3>1. \E i \in Ids : mem[i] = tok
      BY <1>4, <1>p, <2>3 DEF Booted, First, Newest
    <3> QED BY <1>b, <2>1, <3>1
  <2>4. CASE newest[c] # 0
    BY <1>a, <1>b, <2>1, <2>4 DEF InUpdate
  <2> QED BY <2>2, <2>3, <2>4
<1>5. ASSUME NEW w \in Workers, Push(w) PROVE Goal
  <2> DEFINE i == hand[w].id
  <2>1. /\ pc[w] = "push" /\ UNCHANGED <<newest, boot>>
        /\ mem' = [mem EXCEPT ![i] = hand[w].token]
    BY <1>5 DEF Push
  <2>2. hand[w] \in Hand /\ i \in Ids /\ hand[w].token \in Token
    BY <2>1 DEF TypeOK, Hand
  <2>3. mem[i] = NoToken
    BY <2>1 DEF ChainInv, PushFresh
  <2>4. \A j \in Ids : (j # i => mem'[j] = mem[j]) /\ (mem[j] # NoToken => mem'[j] = mem[j])
    BY <2>1, <2>2, <2>3 DEF TypeOK, Store
  <2>5. \A u \in Workers \ {w} : pc'[u] = pc[u] /\ hand'[u] = hand[u]
    BY <1>5 DEF Push, Go, TypeOK
  <2>6. CASE \E j \in Ids : mem[j] = tok
    BY <1>0, <1>b, <2>1, <2>4, <2>6
  <2>7. ASSUME NEW u \in Workers, InUpdate(u, tok) PROVE Goal
    <3>1. u # w /\ hand[u].id \in Ids
      BY <2>1, <2>7 DEF InUpdate, TypeOK, Hand
    <3>2. InUpdate(u, tok)'
      BY <2>4, <2>5, <2>7, <3>1 DEF InUpdate
    <3> QED BY <1>b, <2>1, <3>2
  <2> QED BY <1>a, <1>b, <2>1, <2>6, <2>7
<1>6. ASSUME NEW w \in Workers, NEW i \in Ids, Delete(w, i) PROVE Goal
  <2>1. /\ pc[w] = "idle" /\ mem[i] # NoToken /\ UNCHANGED <<newest, boot, hand>>
        /\ mem' = [mem EXCEPT ![i] = NoToken]
    BY <1>6 DEF Delete
  <2>2. \A j \in Ids : j # i => mem'[j] = mem[j]
    BY <2>1 DEF TypeOK, Store
  <2>3. CASE mem[i].chain = c
    BY <1>6, <2>3 DEF MayLose
  <2>4. CASE mem[i].chain # c
    <3>1. ASSUME NEW j \in Ids, mem[j] = tok PROVE Goal
      <4>1. mem'[j] = tok
        BY <1>0, <2>2, <2>4, <3>1
      <4> QED BY <1>b, <2>1, <4>1
    <3>2. ASSUME NEW u \in Workers, InUpdate(u, tok) PROVE Goal
      <4>1. hand[u] # NoHand /\ hand[u].id \in Ids /\ u # w
        BY <2>1, <3>2 DEF InUpdate, TypeOK, Hand
      <4>2. mem[hand[u].id].chain = c
        BY <1>0, <3>2, <4>1, SameChain DEF InUpdate, ChainInv
      <4>3. mem'[hand[u].id] = mem[hand[u].id]
        BY <2>2, <2>4, <4>1, <4>2
      <4>4. pc'[u] = pc[u]
        BY <1>6, <4>1 DEF Delete, Go, TypeOK
      <4>5. InUpdate(u, tok)'
        BY <2>1, <3>2, <4>3, <4>4 DEF InUpdate
      <4> QED BY <1>b, <2>1, <4>5
    <3> QED BY <1>a, <1>b, <2>1, <3>1, <3>2
  <2> QED BY <2>3, <2>4
<1>7. ASSUME NEW w \in Workers, NEW i \in Ids, Refreshed(w, i) PROVE Goal
  <2> DEFINE d == list[w][i].chain
  <2>1. /\ pc[w] = "refresh" /\ UNCHANGED <<mem, boot>> /\ list[w][i] # NoToken
        /\ \A u \in Workers \ {w} : pc'[u] = pc[u] /\ hand'[u] = hand[u]
    BY <1>7 DEF Refreshed, Go, TypeOK
  <2>2. /\ d \in Chains /\ hand'[w].id = i /\ hand'[w].token.chain = d
        /\ hand'[w].token.gen = newest[d] + 1 /\ pc'[w] = "update"
        /\ newest' = [newest EXCEPT ![d] = @ + 1]
    BY <1>7, RefreshedToken
  <2>3. CASE d # c
    <3>1. newest'[c] = newest[c]
      BY <2>2, <2>3 DEF TypeOK
    <3>2. ASSUME NEW u \in Workers, InUpdate(u, tok) PROVE InUpdate(u, tok)'
      BY <2>1, <3>2 DEF InUpdate
    <3> QED BY <1>a, <1>b, <2>1, <3>1, <3>2
  <2>4. CASE d = c /\ mem[i] = NoToken
    BY <1>7, <2>4 DEF MayLose
  <2>5. CASE d = c /\ mem[i] # NoToken
    <3>1. newest'[c] = newest[c] + 1
      BY <2>2, <2>5 DEF TypeOK
    <3>2. hand'[w].token \in Token
      BY <2>2 DEF TypeOK, Hand
    <3>3. hand'[w].token = Newest(c)'
      BY <2>2, <2>5, <3>1, <3>2 DEF Newest, Token
    <3> QED BY <2>1, <2>2, <2>5, <3>3 DEF Alive
  <2> QED BY <2>3, <2>4, <2>5
<1>8. ASSUME NEW w \in Workers, NEW i \in Ids, AnswerLost(w, i) PROVE Goal
  <2> DEFINE d == list[w][i].chain
  <2>1. /\ UNCHANGED <<mem, boot, pc, hand>> /\ list[w][i] # NoToken /\ Trade(w, i)
    BY <1>8 DEF AnswerLost
  <2>2. CASE d # c
    <3>1. newest'[c] = newest[c]
      BY <2>1, <2>2, TradeStep DEF TypeOK
    <3> QED BY <1>a, <1>b, <2>1, <3>1 DEF InUpdate
  <2>3. CASE d = c
    BY <1>8, <2>3 DEF MayLose
  <2> QED BY <2>2, <2>3
<1>9. ASSUME NEW w \in Workers, Update(w) PROVE Goal
  <2> DEFINE i   == hand[w].id
             new == hand[w].token
  <2>1. /\ pc[w] = "update" /\ UNCHANGED <<newest, boot>>
        /\ \A u \in Workers \ {w} : pc'[u] = pc[u] /\ hand'[u] = hand[u]
    BY <1>9 DEF Update, Go, TypeOK
  <2>2. /\ hand[w] # NoHand /\ i \in Ids /\ new \in Token
    BY <2>1 DEF TypeOK, Hand
  <2>3. new = Newest(new.chain)
    BY <2>1 DEF NewInv, TradedTokenIsNew
  <2>4. CASE mem[i] = NoToken
    <3>1. mem' = mem /\ ~InUpdate(w, tok)
      BY <1>9, <2>4 DEF Update, InUpdate
    <3>2. ASSUME NEW u \in Workers, InUpdate(u, tok) PROVE InUpdate(u, tok)'
      <4>1. u # w
        BY <3>1, <3>2
      <4> QED BY <2>1, <3>1, <3>2, <4>1 DEF InUpdate
    <3> QED BY <1>a, <1>b, <2>1, <3>1, <3>2
  <2>5. CASE mem[i] # NoToken
    <3>1. mem' = [mem EXCEPT ![i] = new]
      BY <1>9, <2>5 DEF Update
    <3>2. mem'[i] = new /\ \A j \in Ids : j # i => mem'[j] = mem[j]
      BY <2>2, <3>1 DEF TypeOK, Store
    <3>3. mem[i].chain = new.chain
      BY <2>2, <2>5, SameChain DEF ChainInv
    <3>4. CASE new = tok
      BY <1>b, <2>1, <2>2, <3>2, <3>4
    <3>5. CASE new # tok
      <4>1. new.chain # c
        BY <1>p, <2>3, <3>5
      <4>2. ASSUME NEW j \in Ids, mem[j] = tok PROVE Goal
        <5>1. mem'[j] = tok
          BY <1>0, <3>2, <3>3, <4>1, <4>2
        <5> QED BY <1>b, <2>1, <5>1
      <4>3. ASSUME NEW u \in Workers, InUpdate(u, tok) PROVE Goal
        <5>1. u # w /\ hand[u].id \in Ids
          BY <3>5, <4>3 DEF InUpdate, TypeOK, Hand
        <5>2. mem'[hand[u].id] # NoToken
          BY <2>2, <3>2, <4>3, <5>1, StoreAssumption DEF InUpdate
        <5>3. InUpdate(u, tok)'
          BY <2>1, <4>3, <5>1, <5>2 DEF InUpdate
        <5> QED BY <1>b, <2>1, <5>3
      <4> QED BY <1>a, <1>b, <2>1, <4>2, <4>3
    <3> QED BY <3>4, <3>5
  <2> QED BY <2>4, <2>5
<1>10. ASSUME NEW w \in Workers, Disconnect(w) PROVE Goal
  <2>1. /\ UNCHANGED <<mem, newest, boot>>
        /\ \A u \in Workers \ {w} : pc'[u] = pc[u] /\ hand'[u] = hand[u]
    BY <1>10 DEF Disconnect, Go, TypeOK
  <2>2. CASE pc[w] # "update"
    BY <1>1, <2>1, <2>2
  <2>3. CASE InUpdate(w, tok)
    <3>1. hand[w] # NoHand /\ hand[w].token.chain = c
      BY <1>0, <2>3 DEF InUpdate, TypeOK
    <3> QED BY <1>10, <3>1 DEF MayLose
  <2>4. CASE ~InUpdate(w, tok)
    <3>1. ASSUME NEW u \in Workers, InUpdate(u, tok) PROVE InUpdate(u, tok)'
      <4>1. u # w
        BY <2>4, <3>1
      <4> QED BY <2>1, <3>1, <4>1 DEF InUpdate
    <3> QED BY <1>a, <1>b, <2>1, <3>1
  <2> QED BY <2>2, <2>3, <2>4
<1>11. ASSUME Crash PROVE Goal
  <2>1. mem' = Loaded /\ boot' = Configured /\ UNCHANGED newest
    BY <1>11 DEF Crash
  <2>2. CASE \E i \in Ids : Loaded[i] = tok
    BY <1>b, <2>1, <2>2
  <2>3. CASE ~(c \in Configured => newest[c] > 0)
    <3>1. newest[c] = 0
      BY <1>0, <2>3, StoreAssumption
    <3> QED BY <1>b, <2>1, <2>3, <3>1
  <2>4. CASE (~\E i \in Ids : Loaded[i] = tok) /\ (c \in Configured => newest[c] > 0)
    BY <1>11, <1>p, <2>4 DEF MayLose
  <2> QED BY <2>2, <2>3, <2>4
<1>11a. ASSUME NEW d \in Chains, BrowserTrades(d) PROVE Goal
  <2>1. CASE d = c
    BY <1>11a, <2>1 DEF MayLose
  <2>2. CASE d # c
    <3>1. newest'[c] = newest[c] /\ UNCHANGED <<mem, pc, hand, boot>>
      BY <1>11a, <2>2 DEF BrowserTrades, TypeOK
    <3> QED BY <1>a, <1>b, <3>1 DEF InUpdate
  <2> QED BY <2>1, <2>2
<1>12. CASE UNCHANGED vars
  BY <1>12, AliveAside DEF vars
<1> QED
  BY <1>2, <1>3, <1>4, <1>5, <1>6, <1>7, <1>8, <1>9, <1>10, <1>11, <1>11a, <1>12
     DEF Next

(* Only the steps that are named can lose a chain: whatever imports, refreshes *)
(* and deletions interleave, a chain the gateway can refresh stays one.       *)
THEOREM ChainsGoOn == Spec => ChainsStayAlive
<1>1. TypeOK /\ TypeOK' /\ NewInv /\ ChainInv /\ [Next]_vars
        => [\A c \in Chains : Alive(c) => Alive(c)' \/ MayLose(c)]_vars
  BY ChainStep
<1> QED BY <1>1, StoreTypes, NewInvariant, ChainInvariant, PTL DEF Spec, ChainsStayAlive
===============================================================================
