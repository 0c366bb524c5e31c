----------------------------- MODULE LinkProofs -----------------------------
(***************************************************************************)
(* Two accounts are never linked to one account of Actual, for any number  *)
(* of connections, accounts, failures and renames.                         *)
(*                                                                         *)
(* ensureAccountLink finds an account of Actual by its name alone, so the  *)
(* argument is about names.  An account looks for its own name while it is *)
(* the only one discovered under it, and adds its currency from then on.   *)
(* The plain name is therefore looked for, or is the name of a linked      *)
(* account of Actual, on behalf of one account at most (OnePlain); and the *)
(* names with a currency are distinct because the currencies are, which is *)
(* what account-linker.ts takes for granted and the theorem assumes.       *)
(***************************************************************************)
EXTENDS ExportProofs

\* Accounts of the same name are told apart by their currency.
CurrenciesDiffer ==
  /\ \A a \in Accounts : Currency[a] # None
  /\ \A a, d \in Accounts :
       a # d /\ AccountName[a] = AccountName[d] => Currency[a] # Currency[d]

Plain(a)   == <<AccountName[a], None>>
NamesOf(a) == {Plain(a), <<AccountName[a], Currency[a]>>}

\* The exporter has no link yet for the account in hand.
Looking(c) == pc[c] \in {"list", "create", "store"}

\* The account of Actual b is, or is about to be, linked to a.
Held(a, b) ==
  \/ link[a] = b
  \/ \E c \in Connections : pc[c] = "store" /\ job[c].acct = a /\ job[c].book = b

\* The plain name is looked for on behalf of a, or is the name of what a is
\* linked to.
UsesPlain(a) ==
  \/ link[a] # None /\ books[link[a]] = Plain(a)
  \/ \E c \in Connections : Looking(c) /\ job[c].acct = a /\ job[c].name = Plain(a)

\* What is looked for is a name of an account that was discovered.
Sought ==
  \A c \in Connections :
    /\ job[c].todo \subseteq listed
    /\ Looking(c) => job[c].acct \in listed /\ job[c].name \in NamesOf(job[c].acct)

\* What is linked, or about to be, still has the name it was found under, unless
\* the user has renamed it.
Named ==
  /\ \A a \in Accounts : link[a] # None =>
       a \in listed /\ books[link[a]] \in NamesOf(a) \cup {OtherName}
  /\ \A c \in Connections : pc[c] = "store" =>
       books[job[c].book] \in {job[c].name, OtherName}

OnePlain ==
  \A a, d \in Accounts :
    a # d /\ AccountName[a] = AccountName[d] => ~(UsesPlain(a) /\ UsesPlain(d))

OneHolder ==
  \A a, d \in Accounts, b \in Books : Held(a, b) /\ Held(d, b) => a = d

LinkInv == Sought /\ Named /\ OnePlain /\ OneHolder

\* What the names are, and what the locals of an exporter that looks are.
LEMMA NameFacts ==
  ASSUME CurrenciesDiffer
  PROVE  /\ \A a \in Accounts : OtherName \notin NamesOf(a) /\ NoName \notin NamesOf(a)
         /\ OtherName # NoName
         /\ \A a, d \in Accounts : \A n \in NamesOf(a) \cap NamesOf(d) :
              a # d => n = Plain(a) /\ n = Plain(d)
<1>1. \A a \in Accounts : NamesOf(a) \subseteq TargetNames
  BY DEF NamesOf, Plain, TargetNames
<1>2. \A a \in Accounts : NoName \notin NamesOf(a)
  BY ExportNoneAssumption DEF NamesOf, Plain, NoName
<1>3. \A a, d \in Accounts : \A n \in NamesOf(a) \cap NamesOf(d) :
        a # d => n = Plain(a) /\ n = Plain(d)
  BY DEF CurrenciesDiffer, NamesOf, Plain
<1> QED
  BY <1>1, <1>2, <1>3, OtherNameAssumption

LEMMA Hands ==
  ASSUME IInv, NEW c \in Connections, Looking(c)
  PROVE  /\ job[c].acct \in Accounts /\ ConnectionOf[job[c].acct] = c
         /\ link[job[c].acct] = None
         /\ pc[c] = "store" => job[c].book \in Books
BY DEF IInv, Exporters, Linking, Looking, AtAccount

\* A step that links nothing and looks for no new name; Actual's accounts stay as
\* they are or are renamed by the user.
LEMMA KeepsLinks ==
  ASSUME CurrenciesDiffer, IInv, LinkInv, listed \subseteq listed', link' = link,
         \A b \in Books : books'[b] \in {books[b], OtherName},
         \A c \in Connections : job'[c].todo \subseteq listed,
         \A c \in Connections : Looking(c)' =>
           Looking(c) /\ job'[c].acct = job[c].acct /\ job'[c].name = job[c].name,
         \A c \in Connections :
           pc'[c] = "store" => pc[c] = "store" /\ job'[c].book = job[c].book
  PROVE  LinkInv'
<1> USE DEF LinkInv
<1>1. \A c \in Connections : pc[c] = "store" => Looking(c) /\ (pc'[c] = "store" => Looking(c)')
  BY DEF Looking
<1>2. \A a \in Accounts : link[a] \in Books \cup {None}
  BY DEF IInv, TypeOK
<1>3. Sought'
  BY DEF Sought, NamesOf, Plain
<1>4. Named'
  <2>1. \A a \in Accounts : link[a] # None =>
          a \in listed' /\ books'[link[a]] \in NamesOf(a) \cup {OtherName}
    BY <1>2 DEF Named
  <2>2. \A c \in Connections : pc'[c] = "store" =>
          books'[job'[c].book] \in {job'[c].name, OtherName}
    BY <1>1, Hands DEF Named
  <2> QED
    BY <2>1, <2>2 DEF Named, NamesOf, Plain
<1>5. OnePlain'
  <2>1. ASSUME NEW a \in Accounts, UsesPlain(a)' PROVE UsesPlain(a)
    <3>1. Plain(a) # OtherName
      BY NameFacts DEF NamesOf
    <3> QED
      BY <1>2, <2>1, <3>1 DEF UsesPlain, Plain
  <2> QED
    BY <2>1 DEF OnePlain
<1>6. OneHolder'
  <2>1. ASSUME NEW a \in Accounts, NEW b \in Books, Held(a, b)' PROVE Held(a, b)
    BY <1>1, <2>1 DEF Held
  <2> QED
    BY <2>1 DEF OneHolder
<1> QED
  BY <1>3, <1>4, <1>5, <1>6

-----------------------------------------------------------------------------
(***************************************************************************)
(* The steps that look for nothing new.                                    *)
(***************************************************************************)

\* What the sync, the user and a crash do.
LEMMA OutsideKeepsLinks ==
  ASSUME CurrenciesDiffer, IInv, LinkInv,
         \/ \E a \in Accounts : Discover(a)
         \/ \E r \in Rows : Insert(r) \/ Change(r) \/ SoftDelete(r)
         \/ \E b \in Books : UserRenames(b)
         \/ Crash \/ UNCHANGED vars
  PROVE  LinkInv'
<1>1. \A c \in Connections : job[c].todo \subseteq listed
  BY DEF LinkInv, Sought
<1>2. listed \subseteq listed' /\ link' = link
  BY DEF Discover, Insert, Change, SoftDelete, UserRenames, Crash, vars, database
<1>3. \A b \in Books : books'[b] \in {books[b], OtherName}
  BY DEF Discover, Insert, Change, SoftDelete, UserRenames, Crash, vars, actual,
         IInv, TypeOK
<1>4. CASE Crash
  <2>1. IdleJob.todo = {}
    BY DEF IdleJob
  <2>2. \A c \in Connections : pc'[c] = "idle" /\ job'[c].todo = {}
    BY <1>4, <2>1 DEF Crash
  <2>3. \A c \in Connections : ~Looking(c)' /\ pc'[c] # "store"
    BY <2>2 DEF Looking
  <2> QED
    BY <1>2, <1>3, <2>2, <2>3, KeepsLinks
<1>5. CASE ~Crash
  <2>1. UNCHANGED <<pc, job>>
    BY <1>5 DEF Discover, Insert, Change, SoftDelete, UserRenames, vars
  <2>2. \A c \in Connections : Looking(c)' => Looking(c)
    BY <2>1 DEF Looking
  <2> QED
    BY <1>1, <1>2, <1>3, <2>1, <2>2, KeepsLinks
<1> QED
  BY <1>4, <1>5

\* One exporter moves without looking for a new account of Actual.
LEMMA MoverKeepsLinks ==
  ASSUME CurrenciesDiffer, IInv, LinkInv, NEW c \in Connections,
         UNCHANGED <<listed, link, books>>, NEW new, NEW p,
         pc' = [pc EXCEPT ![c] = p], job' = [job EXCEPT ![c] = new],
         new.todo \subseteq listed,
         \/ p \notin {"list", "create", "store"}
         \/ p = "create" /\ pc[c] = "list" /\ new = job[c]
  PROVE  LinkInv'
<1>1. /\ pc'[c] = p /\ job'[c] = new
      /\ \A d \in Connections \ {c} : pc'[d] = pc[d] /\ job'[d] = job[d]
  BY DEF IInv, TypeOK
<1>2. \A d \in Connections : job'[d].todo \subseteq listed
  BY <1>1 DEF LinkInv, Sought
<1>3. \A d \in Connections : Looking(d)' =>
        Looking(d) /\ job'[d].acct = job[d].acct /\ job'[d].name = job[d].name
  BY <1>1 DEF Looking
<1>4. \A d \in Connections :
        pc'[d] = "store" => pc[d] = "store" /\ job'[d].book = job[d].book
  BY <1>1
<1> QED
  BY <1>2, <1>3, <1>4, KeepsLinks

LEMMA BeginKeepsLinks ==
  ASSUME CurrenciesDiffer, IInv, LinkInv, NEW c \in Connections,
         NEW scope \in Scopes(c), Begin(c, scope)
  PROVE  LinkInv'
<1> DEFINE rows == {r \in Rows : AccountOf[r] \in scope /\ NeedsExport(r)}
           new == [IdleJob EXCEPT
                     !.batch = [r \in Rows |-> IF r \in rows THEN row[r].version ELSE 0],
                     !.todo = {AccountOf[r] : r \in rows}]
<1>1. scope \subseteq listed
  BY DEF Scopes
<1>2. new.todo \subseteq listed
  BY <1>1 DEF IdleJob
<1>3. job' = [job EXCEPT ![c] = new] /\ pc' = [pc EXCEPT ![c] = "open"]
  BY DEF Begin
<1>4. UNCHANGED <<listed, link, books>>
  BY DEF Begin, database, actual
<1> HIDE DEF new
<1> QED
  BY <1>2, <1>3, <1>4, MoverKeepsLinks

\* The locals stay, but for those of the import and its bookkeeping.
LEMMA StayingKeepsLinks ==
  ASSUME CurrenciesDiffer, IInv, LinkInv, NEW c \in Connections,
         \/ Open(c) \/ EndLoop(c) \/ NoMatch(c) \/ LinkFails(c)
         \/ ImportFails(c) \/ BookFails(c) \/ Import(c) \/ BookRow(c)
  PROVE  LinkInv'
<1>1. UNCHANGED <<listed, link, books>>
  BY DEF Open, EndLoop, NoMatch, LinkFails, ImportFails, BookFails, Import, BookRow,
         database, actual
<1>2. job[c].todo \subseteq listed /\ job[c] \in Job /\ job = [job EXCEPT ![c] = job[c]]
      /\ pc = [pc EXCEPT ![c] = pc[c]]
  BY DEF LinkInv, Sought, IInv, TypeOK
<1>3. CASE Import(c)
  <2>1. PICK some, more \in SUBSET Rows :
          job' = [job EXCEPT ![c] = [job[c] EXCEPT !.left = some, !.added = more]]
    BY <1>3 DEF Import, Batch
  <2> DEFINE new == [job[c] EXCEPT !.left = some, !.added = more]
  <2>2. new.todo = job[c].todo
    BY <1>2 DEF Job
  <2>3. job' = [job EXCEPT ![c] = new] /\ pc' = [pc EXCEPT ![c] = "book"]
    BY <1>3, <2>1 DEF Import
  <2> HIDE DEF new
  <2> QED
    BY <1>1, <1>2, <2>2, <2>3, MoverKeepsLinks
<1>4. CASE BookRow(c)
  <2>1. PICK r, id :
          job' = [job EXCEPT ![c].left = @ \ {r}, ![c].added = @ \ {id}]
    BY <1>4 DEF BookRow
  <2> DEFINE new == [job[c] EXCEPT !.left = @ \ {r}, !.added = @ \ {id}]
  <2>2. new.todo = job[c].todo
    BY <1>2 DEF Job
  <2>3. job' = [job EXCEPT ![c] = new]
    BY <1>2, <2>1 DEF Job
  <2>4. pc' = [pc EXCEPT ![c] = "book"]
    BY <1>2, <1>4 DEF BookRow
  <2> HIDE DEF new
  <2> QED
    BY <1>1, <1>2, <2>2, <2>3, <2>4, MoverKeepsLinks
<1>5. CASE \/ Open(c) \/ EndLoop(c) \/ NoMatch(c) \/ LinkFails(c)
           \/ ImportFails(c) \/ BookFails(c)
  <2>1. PICK p \in {"account", "close", "create", "error"} :
          /\ pc' = [pc EXCEPT ![c] = p] /\ job' = job
          /\ p = "create" => pc[c] = "list"
    BY <1>5 DEF Open, EndLoop, NoMatch, LinkFails, ImportFails, BookFails
  <2>2. p \notin {"list", "create", "store"} \/ (p = "create" /\ pc[c] = "list")
    BY <2>1
  <2> QED
    BY <1>1, <1>2, <2>1, <2>2, MoverKeepsLinks
<1> QED
  BY <1>3, <1>4, <1>5

\* The locals are forgotten, or those of one account.
LEMMA LeavingKeepsLinks ==
  ASSUME CurrenciesDiffer, IInv, LinkInv, NEW c \in Connections,
         \/ OpenFails(c) \/ Close(c) \/ MarkErrorFails(c) \/ Booked(c) \/ MarkError(c)
  PROVE  LinkInv'
<1>1. UNCHANGED <<listed, link, books>>
  BY DEF OpenFails, Close, MarkErrorFails, Booked, MarkError, database, actual
<1>2. job[c].todo \subseteq listed
  BY DEF LinkInv, Sought
<1>3. PICK new, p :
        /\ p \in {"idle", "close", "account"}
        /\ job' = [job EXCEPT ![c] = new] /\ pc' = [pc EXCEPT ![c] = p]
        /\ new.todo \subseteq listed
  <2>1. CASE OpenFails(c) \/ Close(c) \/ MarkErrorFails(c)
    <3>1. IdleJob.todo = {}
      BY DEF IdleJob
    <3>2. PICK p \in {"idle", "close"} :
            job' = [job EXCEPT ![c] = IdleJob] /\ pc' = [pc EXCEPT ![c] = p]
      BY <2>1 DEF OpenFails, Close, MarkErrorFails
    <3> QED
      BY <3>1, <3>2
  <2>2. CASE Booked(c) \/ MarkError(c)
    <3> DEFINE new == [IdleJob EXCEPT
                         !.batch = [r \in Rows |-> IF r \in Batch(c) THEN 0 ELSE job[c].batch[r]],
                         !.todo = job[c].todo \ {job[c].acct}]
    <3>1. job' = [job EXCEPT ![c] = new] /\ pc' = [pc EXCEPT ![c] = "account"]
      BY <2>2 DEF Booked, MarkError, AccountDone
    <3>2. new.todo \subseteq listed
      BY <1>2 DEF IdleJob
    <3> HIDE DEF new
    <3> QED
      BY <3>1, <3>2
  <2> QED
    BY <2>1, <2>2
<1> QED
  BY <1>1, <1>3, MoverKeepsLinks

-----------------------------------------------------------------------------
(***************************************************************************)
(* The steps of ensureAccountLink.                                         *)
(***************************************************************************)

\* The plain name is only looked for by an account that is alone with it.
LEMMA NextAccountKeepsLinks ==
  ASSUME CurrenciesDiffer, IInv, LinkInv, NEW c \in Connections, NEW a \in Accounts,
         NextAccount(c, a)
  PROVE  LinkInv'
<1> USE DEF LinkInv
<1>1. /\ a \in job[c].todo /\ pc[c] = "account"
      /\ UNCHANGED <<listed, link, books>>
  BY DEF NextAccount, database, actual
<1>2. job[c] \in Job /\ job[c].todo \subseteq listed /\ a \in listed
  BY <1>1 DEF Sought, IInv, TypeOK
<1>3. CASE link[a] # None
  <2> DEFINE new == [job[c] EXCEPT !.acct = a, !.book = link[a]]
  <2>1. new.todo = job[c].todo
    BY <1>2 DEF Job
  <2>2. job' = [job EXCEPT ![c] = new] /\ pc' = [pc EXCEPT ![c] = "import"]
    BY <1>3 DEF NextAccount
  <2> HIDE DEF new
  <2> QED
    BY <1>1, <1>2, <2>1, <2>2, MoverKeepsLinks
<1>4. CASE link[a] = None
  <2> DEFINE new == [job[c] EXCEPT !.acct = a, !.name = TargetName(a)]
  <2>1. new.todo = job[c].todo /\ new.acct = a /\ new.name = TargetName(a)
    BY <1>2 DEF Job
  <2>2. job' = [job EXCEPT ![c] = new] /\ pc' = [pc EXCEPT ![c] = "list"]
    BY <1>4 DEF NextAccount
  <2> HIDE DEF new
  <2>3. /\ job'[c] = new /\ pc'[c] = "list"
        /\ \A d \in Connections \ {c} : pc'[d] = pc[d] /\ job'[d] = job[d]
    BY <2>2 DEF IInv, TypeOK
  <2>4. \A d \in Connections \ {c} : Looking(d)' => Looking(d)
    BY <2>3 DEF Looking
  <2>5. TargetName(a) \in NamesOf(a)
    BY DEF TargetName, NamesOf, Plain
  <2>6. Sought'
    BY <1>1, <1>2, <2>1, <2>3, <2>4, <2>5 DEF Sought, NamesOf, Plain
  <2>7. Named'
    BY <1>1, <2>3 DEF Named, NamesOf, Plain
  <2>8. OneHolder'
    <3>1. ASSUME NEW d \in Accounts, NEW b \in Books, Held(d, b)' PROVE Held(d, b)
      BY <1>1, <2>3, <3>1 DEF Held
    <3> QED
      BY <3>1 DEF OneHolder
  <2>9. OnePlain'
    <3>1. ASSUME NEW d \in Accounts, d # a, UsesPlain(d)' PROVE UsesPlain(d)
      BY <1>1, <2>1, <2>3, <2>4, <3>1 DEF UsesPlain, Plain
    <3>2. ASSUME NEW d \in Accounts, UsesPlain(d) PROVE d \in listed
      BY <3>2, Hands DEF UsesPlain, Sought, Named
    <3>3. ASSUME UsesPlain(a)', ~UsesPlain(a) PROVE TargetName(a) = Plain(a)
      BY <1>1, <2>1, <2>3, <2>4, <3>3 DEF UsesPlain, Plain
    <3>4. ASSUME NEW d \in Accounts, d # a, AccountName[d] = AccountName[a],
                 UsesPlain(a)', UsesPlain(d)'
          PROVE  FALSE
      <4>1. UsesPlain(d) /\ d \in listed
        BY <3>1, <3>2, <3>4
      <4>2. ~UsesPlain(a)
        BY <3>4, <4>1 DEF OnePlain
      <4>3. TargetName(a) = Plain(a)
        BY <3>3, <3>4, <4>2
      <4>4. TargetName(a) = <<AccountName[a], Currency[a]>>
        BY <3>4, <4>1 DEF TargetName
      <4> QED
        BY <4>3, <4>4 DEF Plain, CurrenciesDiffer
    <3> QED
      BY <3>1, <3>4 DEF OnePlain
  <2> QED
    BY <2>6, <2>7, <2>8, <2>9
<1> QED
  BY <1>3, <1>4

\* A name that is looked for on behalf of c's account is the name of no account of
\* Actual that another account holds.
LEMMA FoundIsFree ==
  ASSUME CurrenciesDiffer, IInv, LinkInv, NEW c \in Connections, Looking(c),
         NEW b \in Books, books[b] = job[c].name,
         NEW d \in Accounts, Held(d, b)
  PROVE  d = job[c].acct
<1> USE DEF LinkInv
<1> DEFINE a == job[c].acct
<1>1. a \in Accounts /\ books[b] \in NamesOf(a)
  BY Hands DEF Sought
<1>2. books[b] # OtherName
  BY <1>1, NameFacts
<1>3. books[b] \in NamesOf(d) /\ (books[b] = Plain(d) => UsesPlain(d))
  <2>1. CASE link[d] = b
    BY <1>2, <2>1, Constants DEF Named, UsesPlain
  <2>2. CASE link[d] # b
    <3>1. PICK e \in Connections : pc[e] = "store" /\ job[e].acct = d /\ job[e].book = b
      BY <2>2 DEF Held
    <3>2. Looking(e) /\ job[e].name = books[b]
      BY <1>2, <3>1 DEF Looking, Named
    <3> QED
      BY <3>1, <3>2 DEF Sought, UsesPlain
  <2> QED
    BY <2>1, <2>2
<1>4. books[b] = Plain(a) => UsesPlain(a)
  BY DEF UsesPlain
<1> QED
  <2> SUFFICES ASSUME d # a PROVE FALSE
    OBVIOUS
  <2>1. books[b] = Plain(a) /\ books[b] = Plain(d)
    BY <1>1, <1>3, NameFacts
  <2>2. AccountName[a] = AccountName[d]
    BY <2>1 DEF Plain
  <2> QED
    BY <1>1, <1>3, <1>4, <2>1, <2>2 DEF OnePlain

\* MatchBook and CreateBook: the exporter has found the account of Actual it will
\* link, or has made it.
LEMMA FoundKeepsLinks ==
  ASSUME CurrenciesDiffer, IInv, LinkInv, NEW c \in Connections, NEW b \in Books,
         MatchBook(c, b) \/ CreateBook(c, b)
  PROVE  LinkInv'
<1> USE DEF LinkInv
<1> DEFINE a   == job[c].acct
           new == [job[c] EXCEPT !.book = b]
<1>1. /\ Looking(c) /\ UNCHANGED <<listed, link>>
      /\ job' = [job EXCEPT ![c] = new] /\ pc' = [pc EXCEPT ![c] = "store"]
      /\ books'[b] = job[c].name
      /\ \A other \in Books \ {b} : books'[other] = books[other]
      /\ books[b] # NoName => books' = books
  BY DEF MatchBook, CreateBook, Looking, database, actual, IInv, TypeOK
<1>2. job[c] \in Job /\ a \in Accounts /\ link[a] = None
  BY <1>1, Hands DEF IInv, TypeOK
<1>3. /\ new.todo = job[c].todo /\ new.acct = a /\ new.name = job[c].name /\ new.book = b
  BY <1>2 DEF Job
<1> HIDE DEF new
<1>4. /\ job'[c] = new /\ pc'[c] = "store"
      /\ \A d \in Connections \ {c} : pc'[d] = pc[d] /\ job'[d] = job[d]
  BY <1>1 DEF IInv, TypeOK
<1>5. \A d \in Connections : Looking(d)' =>
        Looking(d) /\ job'[d].acct = job[d].acct /\ job'[d].name = job[d].name
  BY <1>1, <1>3, <1>4 DEF Looking
<1>6. ASSUME NEW d \in Accounts, Held(d, b) PROVE d = a /\ books' = books
  <2>1. books[b] # NoName
    <3>1. CASE link[d] = b
      BY <3>1, Constants, NameFacts DEF Named
    <3>2. CASE link[d] # b
      <4>1. PICK e \in Connections : pc[e] = "store" /\ job[e].acct = d /\ job[e].book = b
        BY <1>6, <3>2 DEF Held
      <4>2. job[e].name \in NamesOf(d) /\ books[b] \in {job[e].name, OtherName}
        BY <4>1 DEF Sought, Named, Looking
      <4> QED
        BY <4>2, NameFacts
    <3> QED
      BY <3>1, <3>2
  <2> QED
    BY <1>1, <1>6, <2>1, FoundIsFree
<1>7. \A d \in Accounts : link[d] # None => books'[link[d]] = books[link[d]]
  <2> SUFFICES ASSUME NEW d \in Accounts, link[d] # None
               PROVE  books'[link[d]] = books[link[d]]
    OBVIOUS
  <2>1. link[d] \in Books
    BY DEF IInv, TypeOK
  <2>2. link[d] = b => Held(d, b)
    BY DEF Held
  <2> QED
    BY <1>1, <1>6, <2>1, <2>2
<1>8. Sought'
  BY <1>1, <1>3, <1>4, <1>5 DEF Sought, NamesOf, Plain
<1>9. Named'
  <2>1. \A d \in Accounts : link[d] # None =>
          d \in listed /\ books'[link[d]] \in NamesOf(d) \cup {OtherName}
    BY <1>7 DEF Named
  <2>2. ASSUME NEW d \in Connections \ {c}, pc[d] = "store"
        PROVE  books'[job[d].book] \in {job[d].name, OtherName}
    <3>1. Looking(d) /\ job[d].book \in Books /\ job[d].acct \in Accounts
      BY <2>2, Hands DEF Looking
    <3>2. job[d].book = b => Held(job[d].acct, b)
      BY <2>2 DEF Held
    <3> QED
      BY <1>1, <1>6, <2>2, <3>1, <3>2 DEF Named
  <2> QED
    BY <1>1, <1>3, <1>4, <2>1, <2>2 DEF Named, NamesOf, Plain
<1>10. OnePlain'
  <2>1. ASSUME NEW d \in Accounts, UsesPlain(d)' PROVE UsesPlain(d)
    BY <1>1, <1>5, <1>7, <2>1 DEF UsesPlain, Plain
  <2> QED
    BY <2>1 DEF OnePlain
<1>11. OneHolder'
  <2>1. ASSUME NEW d \in Accounts, NEW other \in Books, Held(d, other)'
        PROVE  Held(d, other) \/ (d = a /\ other = b)
    BY <1>1, <1>3, <1>4, <2>1 DEF Held
  <2> QED
    BY <1>6, <2>1 DEF OneHolder
<1> QED
  BY <1>8, <1>9, <1>10, <1>11

LEMMA StoreLinkKeepsLinks ==
  ASSUME CurrenciesDiffer, IInv, LinkInv, NEW c \in Connections, StoreLink(c)
  PROVE  LinkInv'
<1> USE DEF LinkInv
<1> DEFINE a == job[c].acct
           b == job[c].book
<1>1. /\ pc[c] = "store" /\ Looking(c) /\ UNCHANGED <<listed, books, job>>
      /\ link' = [link EXCEPT ![a] = b] /\ pc' = [pc EXCEPT ![c] = "import"]
  BY DEF StoreLink, Looking, actual
<1>2. a \in Accounts /\ b \in Books /\ a \in listed
  BY <1>1, Hands DEF Sought
<1>3. /\ link'[a] = b /\ \A d \in Accounts \ {a} : link'[d] = link[d]
      /\ pc'[c] = "import" /\ \A d \in Connections \ {c} : pc'[d] = pc[d]
  BY <1>1, <1>2 DEF IInv, TypeOK
<1>4. \A d \in Connections : Looking(d)' => Looking(d)
  BY <1>1, <1>3 DEF Looking
<1>5. books[b] \in {job[c].name, OtherName} /\ job[c].name \in NamesOf(a)
  BY <1>1 DEF Sought, Named
<1>6. Sought'
  BY <1>1, <1>4 DEF Sought, NamesOf, Plain
<1>7. Named'
  BY <1>1, <1>2, <1>3, <1>5 DEF Named, NamesOf, Plain
<1>8. OnePlain'
  <2>1. ASSUME NEW d \in Accounts, UsesPlain(d)' PROVE UsesPlain(d)
    <3>1. Plain(d) # OtherName
      BY NameFacts DEF NamesOf
    <3>2. CASE d = a /\ link'[a] # None /\ books[b] = Plain(a)
      BY <1>1, <1>5, <3>1, <3>2 DEF UsesPlain
    <3>3. CASE link'[d] # None /\ books'[link'[d]] = Plain(d) /\ d # a
      BY <1>1, <1>3, <3>3 DEF UsesPlain
    <3>4. CASE \E e \in Connections :
                 Looking(e)' /\ job'[e].acct = d /\ job'[e].name = Plain(d)
      BY <1>1, <1>4, <3>4 DEF UsesPlain
    <3> QED
      BY <1>1, <1>3, <2>1, <3>2, <3>3, <3>4 DEF UsesPlain, Plain
  <2> QED
    BY <2>1 DEF OnePlain
<1>9. OneHolder'
  <2>1. ASSUME NEW d \in Accounts, NEW other \in Books, Held(d, other)'
        PROVE  Held(d, other)
    BY <1>1, <1>3, <2>1 DEF Held
  <2> QED
    BY <2>1 DEF OneHolder
<1> QED
  BY <1>6, <1>7, <1>8, <1>9

LEMMA LinkStep == CurrenciesDiffer /\ IInv /\ LinkInv /\ [Next]_vars => LinkInv'
<1> SUFFICES ASSUME CurrenciesDiffer, IInv, LinkInv, [Next]_vars PROVE LinkInv'
  OBVIOUS
<1>1. CASE \E c \in Connections : Step(c)
  BY <1>1, NextAccountKeepsLinks, FoundKeepsLinks, StoreLinkKeepsLinks,
     StayingKeepsLinks, LeavingKeepsLinks DEF Step
<1>2. CASE \E c \in Connections : \E scope \in Scopes(c) : Begin(c, scope)
  BY <1>2, BeginKeepsLinks
<1> QED
  BY <1>1, <1>2, OutsideKeepsLinks DEF Next, Sync

\* account-linker.ts:29: as long as accounts of the same name have different
\* currencies, two accounts are never linked to one account of Actual, whatever
\* exporters interleave, fail or crash, and whatever the user renames.
THEOREM EveryAccountHasItsBook == CurrenciesDiffer => (Spec => []OwnBook)
<1> SUFFICES ASSUME CurrenciesDiffer PROVE Spec => []OwnBook
  OBVIOUS
<1>1. Init => LinkInv
  <2> SUFFICES ASSUME Init PROVE LinkInv
    OBVIOUS
  <2>1. /\ \A a \in Accounts : link[a] = None
        /\ \A c \in Connections : pc[c] = "idle" /\ job[c].todo = {}
    BY DEF Init, IdleJob
  <2>2. \A c \in Connections : ~Looking(c)
    BY <2>1 DEF Looking
  <2> QED
    BY <2>1, <2>2, Constants
       DEF LinkInv, Sought, Named, OnePlain, OneHolder, UsesPlain, Held
<1>2. IInv /\ LinkInv => OwnBook
  <2> SUFFICES ASSUME IInv, LinkInv, NEW a \in Accounts, NEW d \in Accounts,
                      a # d, link[a] # None, link[a] = link[d]
               PROVE  FALSE
    BY DEF OwnBook
  <2>1. link[a] \in Books
    BY DEF IInv, TypeOK
  <2>2. Held(a, link[a]) /\ Held(d, link[a])
    BY DEF Held
  <2> QED
    BY <2>1, <2>2 DEF LinkInv, OneHolder
<1>3. IInv /\ LinkInv /\ [Next]_vars => LinkInv'
  BY LinkStep
<1> QED
  BY <1>1, <1>2, <1>3, Inductive, PTL DEF Spec
=============================================================================
