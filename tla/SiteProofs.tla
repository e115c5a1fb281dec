----------------------------- MODULE SiteProofs -----------------------------
(***************************************************************************)
(* Proofs about UserSaves, for any number of connections, accounts and     *)
(* names, with or without timeouts and failures, and about News, for any   *)
(* finite pool of threads and any users, articles, comments and            *)
(* categories.  The two have no state in common.                           *)
(***************************************************************************)
EXTENDS UserSaves, News, FiniteSetTheorems, TLAPS

-----------------------------------------------------------------------------
(* UserSaves: a save is one transaction on the file of the users.          *)

(* Between the validation and the commit a transaction keeps its SHARED    *)
(* lock, so nobody else commits and what the validation saw stays true.    *)
ValidationHolds ==
  \A c \in Connections :
    at[c] \in {"checked", "written", "committing"} => ~Taken(op[c])

SaveInv == SavesTypeOK /\ NamesUnique /\ ValidationHolds

LEMMA SaveInvInit == SaveInit => SaveInv
BY NoNameAssumption
   DEF SaveInit, Init, SaveInv, SavesTypeOK, NamesUnique, ValidationHolds, Points,
       Idle, Operation

(* A transaction goes on without having changed the table.                 *)
LEMMA GotoKeeps ==
  ASSUME SaveInv, NEW c \in Connections, NEW from, NEW to \in Points,
         Goto(c, from, to), table' = table,
         to \in {"begun", "checked", "written", "committing"} => op[c] \in Operation,
         to \in {"checked", "written", "committing"} => ~Taken(op[c])
  PROVE  SaveInv'
<1>1. /\ at' \in [Connections -> Points] /\ at'[c] = to /\ op' = op
      /\ \A d \in Connections \ {c} : at'[d] = at[d]
  BY DEF SaveInv, SavesTypeOK, Goto
<1>2. SavesTypeOK'
  BY <1>1 DEF SaveInv, SavesTypeOK
<1>3. \A d \in Connections : Taken(op[d])' <=> Taken(op[d])
  BY <1>1 DEF Taken
<1> QED
  BY <1>1, <1>2, <1>3 DEF SaveInv, NamesUnique, ValidationHolds

(* A transaction ends; the table may have changed.                         *)
LEMMA EndKeepsType ==
  ASSUME SavesTypeOK, NEW c \in Connections, NEW from, EndTransaction(c, from),
         table' \in [Accounts -> Names \cup {NoName}]
  PROVE  /\ SavesTypeOK' /\ at'[c] = "idle"
         /\ \A d \in Connections \ {c} : at'[d] = at[d] /\ op'[d] = op[d]
BY DEF SavesTypeOK, EndTransaction, Points, Idle

LEMMA RollbackKeeps ==
  ASSUME SaveInv, NEW c \in Connections, NEW from, EndTransaction(c, from),
         table' = table
  PROVE  SaveInv'
<1>1. /\ SavesTypeOK' /\ at'[c] = "idle"
      /\ \A d \in Connections \ {c} : at'[d] = at[d] /\ op'[d] = op[d]
  BY EndKeepsType DEF SaveInv, SavesTypeOK
<1>2. \A d \in Connections \ {c} : Taken(op[d])' <=> Taken(op[d])
  BY <1>1 DEF Taken
<1> QED
  BY <1>1, <1>2 DEF SaveInv, NamesUnique, ValidationHolds

(* What a commit does: nothing, the release of a name, or the taking of a  *)
(* name no other account has.                                              *)
LEMMA CommitEffect ==
  ASSUME SaveInv, NEW c \in Connections, Commit(c)
  PROVE  \/ table' = table
         \/ \E a \in Accounts : table' = [table EXCEPT ![a] = NoName]
         \/ \E a \in Accounts, n \in Names :
              /\ \A b \in Accounts \ {a} : table[b] # n
              /\ table' = [table EXCEPT ![a] = n]
<1> DEFINE o == op[c]
<1>1. at[c] = "committing" /\ table' = Written(o)
  BY DEF Commit
<1>2. o \in Operation /\ (o.kind # "destroy" => o.name \in Names)
  BY <1>1, NoNameAssumption DEF SaveInv, SavesTypeOK, Operation, Idle
<1>3. ~Taken(o)
  BY <1>1 DEF SaveInv, ValidationHolds
<1> HIDE DEF o
<1>4. CASE o.kind = "create" \/ o.kind = "update"
  <2>1. o.account \in Accounts /\ o.name \in Names
    BY <1>2, <1>4 DEF Operation
  <2>2. \A b \in Accounts \ {o.account} : table[b] # o.name
    BY <1>3, <1>4 DEF Taken
  <2>3. table' = table \/ table' = [table EXCEPT ![o.account] = o.name]
    BY <1>1, <1>4 DEF Written
  <2> QED
    BY <2>1, <2>2, <2>3
<1>5. CASE o.kind = "destroy"
  BY <1>1, <1>2, <1>5 DEF Written, Operation
<1> QED
  BY <1>2, <1>4, <1>5 DEF Operation, Kinds

LEMMA SaveInvStep == SaveInv /\ [SaveNext]_saveVars => SaveInv'
<1> SUFFICES ASSUME SaveInv, [SaveNext]_saveVars PROVE SaveInv'
  OBVIOUS
<1>p. Points = {"idle", "begun", "reading", "checked", "written", "committing"}
  BY DEF Points, SharedPoints
<1>1. ASSUME NEW c \in Connections, Read(c) \/ Close(c) PROVE SaveInv'
  BY <1>1, <1>p, GotoKeeps DEF Read, Close
<1>2. ASSUME NEW c \in Connections, Validate(c) PROVE SaveInv'
  <2>1. CASE ~Taken(op[c]) /\ Goto(c, "begun", "checked")
    <3>1. op[c] \in Operation
      BY <2>1 DEF Goto, SaveInv, SavesTypeOK
    <3> QED
      BY <1>2, <1>p, <2>1, <3>1, GotoKeeps DEF Validate
  <2>2. CASE EndTransaction(c, "begun")
    BY <1>2, <2>2, RollbackKeeps DEF Validate
  <2> QED
    BY <1>2, <2>1, <2>2 DEF Validate
<1>3. ASSUME NEW c \in Connections, Write(c) PROVE SaveInv'
  <2>1. CASE Goto(c, "checked", "written")
    <3>1. op[c] \in Operation /\ ~Taken(op[c])
      BY <2>1 DEF Goto, SaveInv, SavesTypeOK, ValidationHolds
    <3> QED
      BY <1>3, <1>p, <2>1, <3>1, GotoKeeps DEF Write
  <2>2. CASE EndTransaction(c, "checked")
    BY <1>3, <2>2, RollbackKeeps DEF Write
  <2> QED
    BY <1>3, <2>1, <2>2 DEF Write
<1>4. ASSUME NEW c \in Connections, AnnounceCommit(c) PROVE SaveInv'
  <2>1. Goto(c, "written", "committing")
    BY <1>4 DEF AnnounceCommit
  <2>2. op[c] \in Operation /\ ~Taken(op[c])
    BY <2>1 DEF Goto, SaveInv, SavesTypeOK, ValidationHolds
  <2> QED
    BY <1>4, <1>p, <2>1, <2>2, GotoKeeps DEF AnnounceCommit
<1>5. ASSUME NEW c \in Connections, Commit(c) PROVE SaveInv'
  <2>1. table' \in [Accounts -> Names \cup {NoName}]
    BY <1>5, CommitEffect DEF SaveInv, SavesTypeOK
  <2>2. /\ SavesTypeOK' /\ at'[c] = "idle"
        /\ \A d \in Connections \ {c} : at'[d] = at[d] /\ op'[d] = op[d]
    BY <1>5, <2>1, EndKeepsType DEF Commit, SaveInv
  <2>3. \A d \in Connections \ {c} : at[d] \notin {"checked", "written", "committing"}
    BY <1>5 DEF Commit, CanCommit, SharedPoints
  <2>4. NamesUnique'
    BY <1>5, CommitEffect, NoNameAssumption DEF SaveInv, SavesTypeOK, NamesUnique
  <2> QED
    BY <2>2, <2>3, <2>4 DEF SaveInv, ValidationHolds
<1>6. ASSUME NEW c \in Connections, Timeout(c) \/ Fail(c) PROVE SaveInv'
  BY <1>6, RollbackKeeps DEF Timeout, Fail
<1>7. ASSUME NEW c \in Connections, NEW kind \in Kinds, NEW a \in Accounts,
             NEW n \in Names \cup {NoName}, kind # "destroy" => n \in Names,
             Begin(c, kind, a, n)
      PROVE  SaveInv'
  <2> DEFINE o == [kind |-> kind, account |-> a, name |-> n]
  <2>1. o \in Operation /\ (o.kind # "destroy" => o.name \in Names)
    BY <1>7 DEF Operation
  <2>2. at[c] = "idle" /\ at' = [at EXCEPT ![c] = "begun"] /\ op' = [op EXCEPT ![c] = o]
        /\ table' = table
    BY <1>7 DEF Begin
  <2> HIDE DEF o
  <2>3. /\ at'[c] = "begun" /\ op'[c] = o
        /\ \A d \in Connections \ {c} : at'[d] = at[d] /\ op'[d] = op[d]
    BY <2>2 DEF SaveInv, SavesTypeOK
  <2>4. SavesTypeOK'
    BY <1>p, <2>1, <2>2, <2>3 DEF SaveInv, SavesTypeOK
  <2>5. \A d \in Connections \ {c} : Taken(op[d])' <=> Taken(op[d])
    BY <2>2, <2>3 DEF Taken
  <2> QED
    BY <2>2, <2>3, <2>4, <2>5 DEF SaveInv, NamesUnique, ValidationHolds
<1>8. ASSUME NEW c \in Connections, NEW a \in Accounts, NEW n \in Names,
             SignUp(c, a, n) \/ EditProfile(c, a, n)
      PROVE  SaveInv'
  BY <1>7, <1>8 DEF SignUp, EditProfile, Kinds
<1>9. ASSUME NEW c \in Connections, NEW a \in Accounts, Cancel(c, a) PROVE SaveInv'
  BY <1>7, <1>9 DEF Cancel, Kinds
<1>10. CASE UNCHANGED saveVars
  BY <1>10 DEF saveVars, SaveInv, SavesTypeOK, NamesUnique, ValidationHolds, Taken
<1> QED
  BY <1>1, <1>2, <1>3, <1>4, <1>5, <1>6, <1>8, <1>9, <1>10 DEF SaveNext, Step

(* What the table, the transactions and their operations hold.             *)
THEOREM SavesTypeCorrect == SaveSpec => []SavesTypeOK
<1>1. SaveInv => SavesTypeOK
  BY DEF SaveInv
<1> QED
  BY SaveInvInit, SaveInvStep, <1>1, PTL DEF SaveSpec

(* However many sign-ups, edits and cancellations run at once, no two      *)
(* accounts ever have the same username (app/models/user.rb:13).           *)
THEOREM UsernamesUnique == SaveSpec => []NamesUnique
<1>1. SaveInv => NamesUnique
  BY DEF SaveInv
<1> QED
  BY SaveInvInit, SaveInvStep, <1>1, PTL DEF SaveSpec

LEMMA SaveStepIsClaim == SaveInv /\ [SaveNext]_saveVars => [Next]_table
<1> SUFFICES ASSUME SaveInv, SaveNext, table' # table PROVE Next
  BY DEF saveVars
<1>1. PICK c \in Connections : Commit(c)
  BY DEF SaveNext, Step, Read, Close, Validate, Write, AnnounceCommit, Timeout, Fail,
         SignUp, EditProfile, Cancel, Begin
<1> QED
  BY <1>1, CommitEffect DEF Next, Claim, Release

(* A save's query, write and commit take effect as one check-and-write:    *)
(* this is why the other modules treat a save as a single step.            *)
THEOREM SavesAreAtomic == SaveSpec => UniqueSpec
<1>1. SaveInit => Init
  BY DEF SaveInit
<1>2. SaveInv /\ [SaveNext]_saveVars => [Next]_table
  BY SaveStepIsClaim
<1> QED
  BY SaveInvInit, SaveInvStep, <1>1, <1>2, PTL DEF SaveSpec, UniqueSpec, Spec

-----------------------------------------------------------------------------
(* News: what the handlers hold and what the rows are.                     *)

ThreadsOK ==
  /\ doing \in [Threads -> Savings \cup {"idle"}] /\ DOMAIN req = Threads
  /\ \A h \in Threads : RequestOK(doing[h], req[h])

RowsOK ==
  /\ live \subseteq Users /\ spam \subseteq Users
  /\ articles \subseteq ArticleRow /\ comments \subseteq CommentRow
  /\ \A r1, r2 \in articles : r1.id = r2.id => r1 = r2
  /\ \A r1, r2 \in comments : r1.id = r2.id => r1 = r2
  /\ given \subseteq Articles \cup Comments
  /\ \A row \in articles \cup comments : row.id \in given
  /\ spoke \in [Users -> Nat]

(* The edit a handler holds is of an article that was, by its author.      *)
EditOf(save, request) ==
  save = "edit" =>
    /\ request.id \in given
    /\ \A row \in articles :
         row.id = request.id => row.author = request.author

NamesOK == categories \in [Categories -> CategoryNames \cup {NoCategory}]

NewsInv ==
  /\ ThreadsOK /\ RowsOK /\ NamesOK
  /\ \A h \in Threads : EditOf(doing[h], req[h])
  /\ CommentsHaveAuthors /\ IsFiniteSet(comments)

LEMMA StartThreads ==
  ASSUME ThreadsOK, NEW h \in Threads, NEW u, NEW save \in Savings, NEW request,
         Start(h, u, save, request), RequestOK(save, request)
  PROVE  /\ ThreadsOK' /\ doing'[h] = save /\ req'[h] = request
         /\ \A g \in Threads \ {h} : doing'[g] = doing[g] /\ req'[g] = req[g]
BY DEF Start, ThreadsOK

LEMMA FinishThreads ==
  ASSUME ThreadsOK, NEW h \in Threads, NEW save, Finish(h, save)
  PROVE  /\ ThreadsOK' /\ doing[h] = save /\ doing'[h] = "idle"
         /\ \A g \in Threads \ {h} : doing'[g] = doing[g] /\ req'[g] = req[g]
<1>1. /\ doing' \in [Threads -> Savings \cup {"idle"}] /\ DOMAIN req' = Threads
      /\ doing[h] = save /\ doing'[h] = "idle"
      /\ \A g \in Threads \ {h} : doing'[g] = doing[g] /\ req'[g] = req[g]
  BY DEF Finish, ThreadsOK
<1>2. RequestOK("idle", req'[h])
  BY DEF RequestOK
<1>3. QED BY <1>1, <1>2 DEF ThreadsOK

(* The filters write nothing.                                              *)
LEMMA StartKeeps ==
  ASSUME NewsInv, NEW h \in Threads, NEW u, NEW save \in Savings, NEW request,
         Start(h, u, save, request), RequestOK(save, request),
         EditOf(save, request)
  PROVE  NewsInv'
<1>1. /\ ThreadsOK' /\ doing'[h] = save /\ req'[h] = request
      /\ \A g \in Threads \ {h} : doing'[g] = doing[g] /\ req'[g] = req[g]
  BY StartThreads DEF NewsInv
<1>2. UNCHANGED <<live, spam, articles, comments, given, categories, spoke>>
  BY DEF Start, discussion
<1>3. RowsOK' /\ NamesOK' /\ CommentsHaveAuthors' /\ IsFiniteSet(comments')
  BY <1>2 DEF NewsInv, RowsOK, NamesOK, CommentsHaveAuthors
<1>4. \A g \in Threads : EditOf(doing[g], req[g])'
  BY <1>1, <1>2 DEF NewsInv, EditOf
<1>5. QED BY <1>1, <1>3, <1>4 DEF NewsInv

LEMMA StartsKeep ==
  ASSUME NewsInv, NEW h \in Threads, NEW u \in Users, Starts(h, u)
  PROVE  NewsInv'
<1>1. ASSUME NEW t \in Texts, WriteArticle(h, u, t)
      PROVE  NewsInv'
  <2>1. RequestOK("article", [author |-> u, text |-> t])
    BY DEF RequestOK
  <2>2. EditOf("article", [author |-> u, text |-> t])
    BY DEF EditOf
  <2>3. QED BY <1>1, <2>1, <2>2, StartKeeps DEF WriteArticle, Savings, Speech
<1>2. ASSUME NEW a \in Articles, NEW t \in Texts, EditArticle(h, u, a, t)
      PROVE  NewsInv'
  <2>1. PICK row \in articles :
          /\ row.id = a
          /\ Start(h, u, "edit", [row EXCEPT !.text = t])
    BY <1>2 DEF EditArticle
  <2>2. /\ row \in ArticleRow /\ row.id \in given
        /\ \A r \in articles : r.id = row.id => r = row
    BY DEF NewsInv, RowsOK
  <2> DEFINE new == [row EXCEPT !.text = t]
  <2>3. new \in ArticleRow /\ new.id = row.id /\ new.author = row.author
    BY <2>2 DEF ArticleRow
  <2> HIDE DEF new
  <2>4. RequestOK("edit", new) /\ EditOf("edit", new)
    BY <2>2, <2>3 DEF RequestOK, EditOf
  <2>5. QED BY <2>1, <2>4, StartKeeps DEF new, Savings, Speech
<1>3. ASSUME NEW a \in Articles, DestroyArticle(h, u, a)
      PROVE  NewsInv'
  <2>1. RequestOK("unpublish", a) /\ EditOf("unpublish", a)
    BY DEF RequestOK, EditOf
  <2>2. QED BY <1>3, <2>1, StartKeeps DEF DestroyArticle, Savings, Speech
<1>4. ASSUME NEW a \in Articles, WriteComment(h, u, a)
      PROVE  NewsInv'
  <2>1. RequestOK("comment", [article |-> a, by |-> u])
    BY DEF RequestOK
  <2>2. EditOf("comment", [article |-> a, by |-> u])
    BY DEF EditOf
  <2>3. QED BY <1>4, <2>1, <2>2, StartKeeps DEF WriteComment, Savings, Speech
<1>5. ASSUME NEW c \in Comments, EditComment(h, u, c) \/ DestroyComment(h, u, c)
      PROVE  NewsInv'
  <2>1. PICK save \in {"revise", "remove"} :
          Start(h, u, save, [comment |-> c, by |-> u])
    BY <1>5 DEF EditComment, DestroyComment
  <2>2. RequestOK(save, [comment |-> c, by |-> u])
    BY DEF RequestOK
  <2>3. EditOf(save, [comment |-> c, by |-> u])
    BY DEF EditOf
  <2>4. save \in Savings
    BY DEF Savings, Speech
  <2>5. QED BY <2>1, <2>2, <2>3, <2>4, StartKeeps
<1>6. ASSUME NEW n \in CategoryNames, CreateCategory(h, u, n)
      PROVE  NewsInv'
  <2>1. RequestOK("category", n) /\ EditOf("category", n)
    BY DEF RequestOK, EditOf
  <2>2. QED BY <1>6, <2>1, StartKeeps DEF CreateCategory, Savings, Speech
<1>7. ASSUME NEW k \in Categories, NEW n \in CategoryNames,
             RenameCategory(h, u, k, n)
      PROVE  NewsInv'
  <2>1. RequestOK("rename", [id |-> k, name |-> n])
    BY DEF RequestOK
  <2>2. EditOf("rename", [id |-> k, name |-> n])
    BY DEF EditOf
  <2>3. QED BY <1>7, <2>1, <2>2, StartKeeps DEF RenameCategory, Savings, Speech
<1>8. ASSUME NEW v \in Users, MarkSpam(h, u, v)
      PROVE  NewsInv'
  <2>1. RequestOK("flag", [user |-> v, flag |-> v \notin spam])
    BY DEF RequestOK
  <2>2. EditOf("flag", [user |-> v, flag |-> v \notin spam])
    BY DEF EditOf
  <2>3. QED BY <1>8, <2>1, <2>2, StartKeeps DEF MarkSpam, Savings, Speech
<1>9. CASE CancelAccount(h, u)
  <2>1. RequestOK("cancel", u) /\ EditOf("cancel", u)
    BY DEF RequestOK, EditOf
  <2>2. QED BY <1>9, <2>1, StartKeeps DEF CancelAccount, Savings, Speech
<1>10. QED BY <1>1, <1>2, <1>3, <1>4, <1>5, <1>6, <1>7, <1>8, <1>9 DEF Starts

(* A save, given what it leaves of the rows.                               *)
LEMMA FinishKeeps ==
  ASSUME NewsInv, NEW h \in Threads, NEW save, Finish(h, save),
         RowsOK', NamesOK', CommentsHaveAuthors', IsFiniteSet(comments'),
         given \subseteq given',
         \A row \in articles' :
           \/ row.id \notin given
           \/ \E old \in articles : old.id = row.id /\ old.author = row.author
  PROVE  NewsInv'
<1>1. /\ ThreadsOK' /\ doing'[h] = "idle"
      /\ \A g \in Threads \ {h} : doing'[g] = doing[g] /\ req'[g] = req[g]
  BY FinishThreads DEF NewsInv
<1>2. ASSUME NEW g \in Threads
      PROVE  EditOf(doing[g], req[g])'
  BY <1>1 DEF NewsInv, EditOf
<1>3. QED BY <1>1, <1>2 DEF NewsInv

(* A save that leaves articles and comments alone.                         *)
LEMMA QuietSave ==
  ASSUME NewsInv, NEW h \in Threads, NEW save, Finish(h, save), NamesOK',
         articles' = articles, comments' = comments, given' = given, live' = live,
         spam' \subseteq Users, spoke' \in [Users -> Nat]
  PROVE  NewsInv'
<1>1. RowsOK' /\ CommentsHaveAuthors' /\ IsFiniteSet(comments')
  BY DEF NewsInv, RowsOK, CommentsHaveAuthors
<1>2. \A row \in articles' :
        \/ row.id \notin given
        \/ \E old \in articles : old.id = row.id /\ old.author = row.author
  OBVIOUS
<1>3. QED BY <1>1, <1>2, FinishKeeps

LEMMA SpokenTyped ==
  ASSUME RowsOK, NEW u \in Users, Spoken(u)
  PROVE  spoke' \in [Users -> Nat]
BY DEF Spoken, RowsOK

LEMMA SaveArticleKeeps ==
  ASSUME NewsInv, NEW h \in Threads, SaveArticle(h)
  PROVE  NewsInv'
<1>1. req[h] \in [author: Users, text: Texts]
  BY DEF SaveArticle, Finish, NewsInv, ThreadsOK, RequestOK
<1>2. PICK k \in Articles \ given :
        /\ articles' = articles \cup {[id |-> k, author |-> req[h].author,
                                       text |-> req[h].text]}
        /\ given' = given \cup {k}
  BY DEF SaveArticle
<1> DEFINE new == [id |-> k, author |-> req[h].author, text |-> req[h].text]
<1>3. new \in ArticleRow /\ new.id = k
  BY <1>1 DEF ArticleRow
<1>4. articles' = articles \cup {new}
  BY <1>2
<1> HIDE DEF new
<1>5. UNCHANGED <<live, spam, comments, categories, spoke>> /\ Finish(h, "article")
  BY DEF SaveArticle
<1>6. RowsOK'
  <2>1. \A r1, r2 \in articles' : r1.id = r2.id => r1 = r2
    BY <1>2, <1>3, <1>4 DEF NewsInv, RowsOK
  <2>2. \A row \in articles' \cup comments' : row.id \in given'
    BY <1>2, <1>3, <1>4, <1>5 DEF NewsInv, RowsOK
  <2>3. QED BY <1>2, <1>3, <1>4, <1>5, <2>1, <2>2 DEF NewsInv, RowsOK
<1>7. NamesOK' /\ CommentsHaveAuthors' /\ IsFiniteSet(comments')
  BY <1>5 DEF NewsInv, NamesOK, CommentsHaveAuthors
<1>8. \A row \in articles' :
        \/ row.id \notin given
        \/ \E old \in articles : old.id = row.id /\ old.author = row.author
  BY <1>2, <1>3, <1>4
<1>9. QED BY <1>2, <1>5, <1>6, <1>7, <1>8, FinishKeeps

LEMMA SaveEditKeeps ==
  ASSUME NewsInv, NEW h \in Threads, SaveEdit(h)
  PROVE  NewsInv'
<1> DEFINE new == req[h]
<1>1. /\ new \in ArticleRow /\ new.id \in given
      /\ \A row \in articles : row.id = new.id => row.author = new.author
  BY DEF SaveEdit, Finish, NewsInv, ThreadsOK, RequestOK, EditOf
<1>2. /\ UNCHANGED <<live, spam, comments, given, categories, spoke>>
      /\ Finish(h, "edit")
  BY DEF SaveEdit
<1>3. CASE articles' = articles
  BY <1>2, <1>3, QuietSave DEF NewsInv, RowsOK, NamesOK
<1>4. CASE articles' = {IF row.id = new.id THEN new ELSE row : row \in articles}
  <2> HIDE DEF new
  <2>1. \A row \in articles' :
          /\ row \in ArticleRow
          /\ \E old \in articles :
               /\ old.id = row.id /\ old.author = row.author
               /\ row = IF old.id = new.id THEN new ELSE old
    BY <1>1, <1>4 DEF NewsInv, RowsOK
  <2>2. \A r1, r2 \in articles' : r1.id = r2.id => r1 = r2
    BY <2>1 DEF NewsInv, RowsOK
  <2>3. \A row \in articles' \cup comments' : row.id \in given'
    BY <1>2, <2>1 DEF NewsInv, RowsOK
  <2>4. RowsOK'
    BY <1>2, <2>1, <2>2, <2>3 DEF NewsInv, RowsOK
  <2>5. NamesOK' /\ CommentsHaveAuthors' /\ IsFiniteSet(comments')
    BY <1>2 DEF NewsInv, NamesOK, CommentsHaveAuthors
  <2>6. QED BY <1>2, <2>1, <2>4, <2>5, FinishKeeps
<1>5. QED BY <1>3, <1>4 DEF SaveEdit

(* Rows are removed.                                                       *)
LEMMA RowsRemoved ==
  ASSUME NewsInv, NEW h \in Threads, NEW save, Finish(h, save), NamesOK',
         articles' \subseteq articles, comments' \subseteq comments,
         given' = given, live' \subseteq live, spam' \subseteq Users,
         spoke' \in [Users -> Nat], \A row \in comments' : row.author \in live'
  PROVE  NewsInv'
<1>1. RowsOK' /\ CommentsHaveAuthors'
  BY DEF NewsInv, RowsOK, CommentsHaveAuthors
<1>2. IsFiniteSet(comments')
  BY FS_Subset DEF NewsInv
<1>3. \A row \in articles' :
        \/ row.id \notin given
        \/ \E old \in articles : old.id = row.id /\ old.author = row.author
  OBVIOUS
<1>4. QED BY <1>1, <1>2, <1>3, FinishKeeps

LEMMA RemovalsKeep ==
  ASSUME NewsInv, NEW h \in Threads,
         RemoveArticle(h) \/ RemoveComment(h) \/ RemoveAccount(h)
  PROVE  NewsInv'
<1>1. /\ live \subseteq Users /\ spam \subseteq Users /\ spoke \in [Users -> Nat]
      /\ \A row \in comments : row.author \in live
  BY DEF NewsInv, RowsOK, CommentsHaveAuthors
<1>2. NamesOK'
  BY DEF RemoveArticle, RemoveComment, RemoveAccount, NewsInv, NamesOK
<1>3. CASE RemoveArticle(h)
  BY <1>1, <1>2, <1>3, RowsRemoved DEF RemoveArticle
<1>4. CASE RemoveComment(h)
  <2>1. req[h].by \in Users
    BY <1>4 DEF RemoveComment, Finish, NewsInv, ThreadsOK, RequestOK
  <2>2. spoke' \in [Users -> Nat]
    BY <1>1, <1>4, <2>1, SpokenTyped DEF RemoveComment, NewsInv
  <2>3. QED BY <1>1, <1>2, <1>4, <2>2, RowsRemoved DEF RemoveComment
<1>5. CASE RemoveAccount(h)
  BY <1>1, <1>2, <1>5, RowsRemoved DEF RemoveAccount
<1>6. QED BY <1>3, <1>4, <1>5

LEMMA SaveCommentKeeps ==
  ASSUME NewsInv, NEW h \in Threads, SaveComment(h)
  PROVE  NewsInv'
<1> DEFINE new == req[h]
<1>1. new \in [article: Articles, by: Users]
  BY DEF SaveComment, Finish, NewsInv, ThreadsOK, RequestOK
<1>2. /\ UNCHANGED <<live, spam, articles, categories>>
      /\ Finish(h, "comment") /\ NamesOK'
  BY DEF SaveComment, NewsInv, NamesOK
<1>3. CASE UNCHANGED <<comments, given, spoke>>
  BY <1>2, <1>3, QuietSave DEF NewsInv, RowsOK
<1>4. ASSUME new.by \in live, Spoken(new.by),
             NEW c \in Comments \ given, given' = given \cup {c},
             comments' = comments \cup {[id |-> c, article |-> new.article,
                                         author |-> new.by]}
      PROVE  NewsInv'
  <2> DEFINE row == [id |-> c, article |-> new.article, author |-> new.by]
  <2>1. row \in CommentRow /\ row.id = c /\ row.author \in live
    BY <1>1, <1>4 DEF CommentRow
  <2>2. comments' = comments \cup {row}
    BY <1>4
  <2>3. spoke' \in [Users -> Nat]
    BY <1>1, <1>4, SpokenTyped DEF NewsInv
  <2> HIDE DEF new, row
  <2>4. \A r1, r2 \in comments' : r1.id = r2.id => r1 = r2
    BY <1>4, <2>1, <2>2 DEF NewsInv, RowsOK
  <2>5. \A r \in articles' \cup comments' : r.id \in given'
    BY <1>2, <1>4, <2>1, <2>2 DEF NewsInv, RowsOK
  <2>6. RowsOK'
    BY <1>2, <1>4, <2>1, <2>2, <2>3, <2>4, <2>5 DEF NewsInv, RowsOK
  <2>7. CommentsHaveAuthors' /\ IsFiniteSet(comments')
    BY <1>2, <2>1, <2>2, FS_AddElement DEF NewsInv, CommentsHaveAuthors
  <2>8. QED BY <1>2, <1>4, <2>6, <2>7, FinishKeeps
<1>5. QED BY <1>3, <1>4 DEF SaveComment

(* The saves that touch no article and no comment.                         *)
LEMMA OthersKeep ==
  ASSUME NewsInv, NEW h \in Threads,
         \/ SaveRevision(h) \/ SaveCategory(h) \/ SaveRename(h)
         \/ SaveFlag(h) \/ Abandon(h)
  PROVE  NewsInv'
<1>1. live \subseteq Users /\ spam \subseteq Users /\ spoke \in [Users -> Nat]
  BY DEF NewsInv, RowsOK
<1>2. UNCHANGED <<live, articles, comments, given>>
  BY DEF SaveRevision, SaveCategory, SaveRename, SaveFlag, Abandon, discussion
<1>3. \E save : Finish(h, save)
  BY DEF SaveRevision, SaveCategory, SaveRename, SaveFlag, Abandon
<1>4. spam' \subseteq Users /\ spoke' \in [Users -> Nat]
  <2>1. CASE SaveRevision(h)
    <3>1. req[h].by \in Users
      BY <2>1 DEF SaveRevision, Finish, NewsInv, ThreadsOK, RequestOK
    <3>2. QED BY <1>1, <2>1, <3>1, SpokenTyped DEF SaveRevision, NewsInv
  <2>2. CASE SaveFlag(h)
    <3>1. req[h].user \in Users
      BY <2>2 DEF SaveFlag, Finish, NewsInv, ThreadsOK, RequestOK
    <3>2. QED BY <1>1, <2>2, <3>1 DEF SaveFlag
  <2>3. CASE SaveCategory(h) \/ SaveRename(h) \/ Abandon(h)
    BY <1>1, <2>3 DEF SaveCategory, SaveRename, Abandon
  <2>4. QED BY <2>1, <2>2, <2>3
<1>5. NamesOK'
  <2>1. ASSUME NEW k \in Categories, NEW n \in CategoryNames,
               Named!Claim(k, n) \/ UNCHANGED categories
        PROVE  NamesOK'
    BY <2>1 DEF NewsInv, NamesOK, Named!Claim
  <2>2. CASE SaveCategory(h)
    <3>1. req[h] \in CategoryNames
      BY <2>2 DEF SaveCategory, Finish, NewsInv, ThreadsOK, RequestOK
    <3>2. QED BY <2>1, <2>2, <3>1 DEF SaveCategory
  <2>3. CASE SaveRename(h)
    <3>1. req[h].id \in Categories /\ req[h].name \in CategoryNames
      BY <2>3 DEF SaveRename, Finish, NewsInv, ThreadsOK, RequestOK
    <3>2. QED BY <2>1, <2>3, <3>1 DEF SaveRename
  <2>4. CASE SaveRevision(h) \/ SaveFlag(h) \/ Abandon(h)
    BY <2>4 DEF SaveRevision, SaveFlag, Abandon, NewsInv, NamesOK
  <2>5. QED BY <2>2, <2>3, <2>4
<1>6. QED BY <1>2, <1>3, <1>4, <1>5, QuietSave

LEMMA NewsInvInit == NewsInit => NewsInv
<1> SUFFICES ASSUME NewsInit PROVE NewsInv
  OBVIOUS
<1>1. ThreadsOK
  BY DEF NewsInit, ThreadsOK, RequestOK, Speech
<1>2. RowsOK /\ CommentsHaveAuthors
  BY DEF NewsInit, RowsOK, CommentsHaveAuthors
<1>3. NamesOK
  BY NewsAssumption DEF NewsInit, NamesOK
<1>4. IsFiniteSet(comments)
  BY FS_EmptySet DEF NewsInit
<1>5. \A h \in Threads : EditOf(doing[h], req[h])
  BY DEF NewsInit, EditOf
<1>6. QED BY <1>1, <1>2, <1>3, <1>4, <1>5 DEF NewsInv

LEMMA NewsInvNext == NewsInv /\ [NewsNext]_newsVars => NewsInv'
<1> SUFFICES ASSUME NewsInv, [NewsNext]_newsVars PROVE NewsInv'
  OBVIOUS
<1>1. ASSUME NEW h \in Threads, NEW u \in Users, Starts(h, u)
      PROVE  NewsInv'
  BY <1>1, StartsKeep
<1>2. ASSUME NEW h \in Threads, Ends(h)
      PROVE  NewsInv'
  BY <1>2, SaveArticleKeeps, SaveEditKeeps, RemovalsKeep, SaveCommentKeeps,
     OthersKeep DEF Ends
<1>3. CASE UNCHANGED newsVars
  BY <1>3 DEF newsVars, discussion, NewsInv, ThreadsOK, RowsOK, NamesOK, EditOf,
     CommentsHaveAuthors
<1>4. QED BY <1>1, <1>2, <1>3 DEF NewsNext

LEMMA NewsInvHolds == NewsSpec => []NewsInv
BY NewsInvInit, NewsInvNext, PTL DEF NewsSpec

-----------------------------------------------------------------------------
(* How many comments an article that is gone can leave, and how many       *)
(* changes a user with the flag can make.                                  *)

(* Counting a finite set with one element more or less.                    *)
LEMMA OneMore ==
  ASSUME NEW S, NEW x, IsFiniteSet(S), x \notin S
  PROVE  /\ IsFiniteSet(S \cup {x})
         /\ Cardinality(S \cup {x}) = Cardinality(S) + 1
BY FS_AddElement

LEMMA OneLess ==
  ASSUME NEW S, NEW T, NEW x \in S, IsFiniteSet(S), T \subseteq S \ {x}
  PROVE  IsFiniteSet(T) /\ Cardinality(T) + 1 <= Cardinality(S)
<1>1. /\ IsFiniteSet(S \ {x}) /\ Cardinality(S \ {x}) = Cardinality(S) - 1
      /\ Cardinality(S) \in Nat
  BY FS_RemoveElement, FS_CardinalityType
<1>2. IsFiniteSet(T) /\ Cardinality(T) <= Cardinality(S \ {x})
  BY <1>1, FS_Subset
<1>3. Cardinality(T) \in Nat
  BY <1>2, FS_CardinalityType
<1>4. QED BY <1>1, <1>2, <1>3

LEMMA NoMore ==
  ASSUME NEW S, NEW T, IsFiniteSet(S), T \subseteq S
  PROVE  /\ IsFiniteSet(T) /\ Cardinality(T) <= Cardinality(S)
         /\ Cardinality(T) \in Nat /\ Cardinality(S) \in Nat
BY FS_Subset, FS_CardinalityType

(* Threads about to insert a comment on a.                                 *)
PendingOn(a) == {h \in Threads : doing[h] = "comment" /\ req[h].article = a}

OrphansInv ==
  \A a \in Articles :
    ~Exists(a) =>
      Cardinality(CommentsOf(a)) + Cardinality(PendingOn(a)) < Cardinality(Threads)

(* Threads about to change a comment for u.                                *)
Speaking(u) == {h \in Threads : doing[h] \in Speech /\ req[h].by = u}

SpamInv ==
  \A u \in spam : spoke[u] + Cardinality(Speaking(u)) < Cardinality(Threads)

LEMMA ThreadsCounted ==
  /\ IsFiniteSet(Threads) /\ Cardinality(Threads) \in Nat
  /\ \A S \in SUBSET Threads : IsFiniteSet(S) /\ Cardinality(S) \in Nat
  /\ \A h \in Threads : \A S \in SUBSET (Threads \ {h}) :
       Cardinality(S) < Cardinality(Threads)
<1>1. IsFiniteSet(Threads) /\ Cardinality(Threads) \in Nat
  BY NewsAssumption, FS_CardinalityType
<1>2. ASSUME NEW S \in SUBSET Threads
      PROVE  IsFiniteSet(S) /\ Cardinality(S) \in Nat
  BY <1>1, NoMore
<1>3. ASSUME NEW h \in Threads, NEW S \in SUBSET (Threads \ {h})
      PROVE  Cardinality(S) < Cardinality(Threads)
  <2>1. Cardinality(S) + 1 <= Cardinality(Threads)
    BY <1>1, <1>3, OneLess
  <2>2. QED BY <1>1, <1>2, <2>1
<1>4. QED BY <1>1, <1>2, <1>3

(* What the filters have seen to when a thread begins.                     *)
LEMMA StartMade ==
  ASSUME NEW h \in Threads, NEW u \in Users, Starts(h, u)
  PROVE  \E save, request :
           /\ save \in Savings /\ Start(h, u, save, request)
           /\ save = "comment" => Exists(request.article)
           /\ save \in Speech => u \notin spam /\ request.by = u
<1> DEFINE Made(save, request) ==
             /\ save \in Savings /\ Start(h, u, save, request)
             /\ save = "comment" => Exists(request.article)
             /\ save \in Speech => u \notin spam /\ request.by = u
<1>1. ASSUME NEW save \in Savings \ Speech, NEW request,
             Start(h, u, save, request)
      PROVE  Made(save, request)
  BY <1>1 DEF Speech
<1>2. ASSUME NEW a \in Articles, WriteComment(h, u, a)
      PROVE  Made("comment", [article |-> a, by |-> u])
  BY <1>2 DEF WriteComment, Savings, Speech
<1>3. ASSUME NEW c \in Comments, EditComment(h, u, c) \/ DestroyComment(h, u, c)
      PROVE  \E save, request : Made(save, request)
  <2>1. /\ u \notin spam
        /\ \/ Start(h, u, "revise", [comment |-> c, by |-> u])
           \/ Start(h, u, "remove", [comment |-> c, by |-> u])
    BY <1>3 DEF EditComment, DestroyComment
  <2>2. \/ Made("revise", [comment |-> c, by |-> u])
        \/ Made("remove", [comment |-> c, by |-> u])
    BY <2>1 DEF Savings, Speech
  <2> HIDE DEF Made
  <2>3. QED BY <2>2
<1>4. ASSUME NEW t \in Texts, WriteArticle(h, u, t)
      PROVE  Made("article", [author |-> u, text |-> t])
  BY <1>1, <1>4 DEF WriteArticle, Savings, Speech
<1>5. ASSUME NEW a \in Articles, NEW t \in Texts, EditArticle(h, u, a, t)
      PROVE  \E save, request : Made(save, request)
  <2>1. PICK row \in articles : Start(h, u, "edit", [row EXCEPT !.text = t])
    BY <1>5 DEF EditArticle
  <2>2. Made("edit", [row EXCEPT !.text = t])
    BY <1>1, <2>1 DEF Savings, Speech
  <2> HIDE DEF Made
  <2>3. QED BY <2>2
<1>6. ASSUME NEW a \in Articles, DestroyArticle(h, u, a)
      PROVE  Made("unpublish", a)
  BY <1>1, <1>6 DEF DestroyArticle, Savings, Speech
<1>7. ASSUME NEW n \in CategoryNames, CreateCategory(h, u, n)
      PROVE  Made("category", n)
  BY <1>1, <1>7 DEF CreateCategory, Savings, Speech
<1>8. ASSUME NEW k \in Categories, NEW n \in CategoryNames,
             RenameCategory(h, u, k, n)
      PROVE  Made("rename", [id |-> k, name |-> n])
  BY <1>1, <1>8 DEF RenameCategory, Savings, Speech
<1>9. ASSUME NEW v \in Users, MarkSpam(h, u, v)
      PROVE  Made("flag", [user |-> v, flag |-> v \notin spam])
  BY <1>1, <1>9 DEF MarkSpam, Savings, Speech
<1>10. ASSUME CancelAccount(h, u) PROVE Made("cancel", u)
  BY <1>1, <1>10 DEF CancelAccount, Savings, Speech
<1>11. \E save, request : Made(save, request)
  <2> HIDE DEF Made
  <2>1. QED BY <1>2, <1>3, <1>4, <1>5, <1>6, <1>7, <1>8, <1>9, <1>10 DEF Starts
<1>12. QED BY <1>11

(* No thread begins to comment on an article that is gone, and an article  *)
(* never returns.                                                          *)
LEMMA OrphansStep ==
  ASSUME NewsInv, OrphansInv, [NewsNext]_newsVars
  PROVE  OrphansInv'
<1> SUFFICES ASSUME NEW a \in Articles, ~Exists(a)'
             PROVE  Cardinality(CommentsOf(a)') + Cardinality(PendingOn(a)')
                      < Cardinality(Threads)
  BY DEF OrphansInv
<1> DEFINE C == CommentsOf(a)
           P == PendingOn(a)
<1>1. /\ IsFiniteSet(C) /\ IsFiniteSet(P) /\ IsFiniteSet(C') /\ IsFiniteSet(P')
      /\ Cardinality(C) \in Nat /\ Cardinality(P) \in Nat
      /\ Cardinality(C') \in Nat /\ Cardinality(P') \in Nat
      /\ Cardinality(Threads) \in Nat
  <2>1. IsFiniteSet(comments) /\ IsFiniteSet(comments')
    BY NewsInvNext DEF NewsInv
  <2>2. C \subseteq comments /\ C' \subseteq comments'
    BY DEF CommentsOf
  <2>3. P \in SUBSET Threads /\ P' \in SUBSET Threads
    BY DEF PendingOn
  <2>4. QED BY <2>1, <2>2, <2>3, NoMore, ThreadsCounted
(* it is enough that neither number grows while the article is gone        *)
<1>2. ASSUME ~Exists(a), C' \subseteq C, P' \subseteq P
      PROVE  Cardinality(C') + Cardinality(P') < Cardinality(Threads)
  <2>1. Cardinality(C') <= Cardinality(C) /\ Cardinality(P') <= Cardinality(P)
    BY <1>1, <1>2, NoMore
  <2>2. Cardinality(C) + Cardinality(P) < Cardinality(Threads)
    BY <1>2 DEF OrphansInv
  <2>3. QED BY <1>1, <2>1, <2>2
<1>3. ASSUME NEW h \in Threads, NEW save, Finish(h, save)
      PROVE  P' \subseteq P \ {h}
  <2>1. /\ doing'[h] = "idle"
        /\ \A g \in Threads \ {h} : doing'[g] = doing[g] /\ req'[g] = req[g]
    BY <1>3, FinishThreads DEF NewsInv
  <2>2. QED BY <2>1 DEF PendingOn
<1>4. ASSUME NEW h \in Threads, NEW u \in Users, Starts(h, u)
      PROVE  Cardinality(C') + Cardinality(P') < Cardinality(Threads)
  <2>1. articles' = articles /\ comments' = comments
    BY <1>4 DEF Starts, WriteArticle, EditArticle, DestroyArticle, WriteComment,
       EditComment, DestroyComment, CreateCategory, RenameCategory, MarkSpam,
       CancelAccount, Start, discussion
  <2>2. ~Exists(a) /\ C' = C
    BY <2>1 DEF Exists, CommentsOf
  <2>3. PICK save, request :
          /\ save \in Savings /\ Start(h, u, save, request)
          /\ save = "comment" => Exists(request.article)
    BY <1>4, StartMade
  <2>4. P' \subseteq P
    <3>1. /\ \A g \in Threads \ {h} : doing'[g] = doing[g] /\ req'[g] = req[g]
          /\ doing'[h] = save /\ req'[h] = request
      BY <2>3 DEF Start, NewsInv, ThreadsOK
    <3>2. QED BY <2>2, <2>3, <3>1 DEF PendingOn
  <2>5. QED BY <1>2, <2>2, <2>4
<1>5. ASSUME NEW h \in Threads, RemoveArticle(h)
      PROVE  Cardinality(C') + Cardinality(P') < Cardinality(Threads)
  <2>1. PICK save : Finish(h, save)
    BY <1>5 DEF RemoveArticle
  <2>2. P' \subseteq P \ {h}
    BY <1>3, <2>1
  <2>3. CASE Exists(a)
    <3>1. req[h] = a
      BY <1>5, <2>3 DEF RemoveArticle, Exists
    <3>2. C' = {}
      BY <1>5, <3>1 DEF RemoveArticle, CommentsOf
    <3>3. P' \in SUBSET (Threads \ {h})
      BY <2>2 DEF PendingOn
    <3>4. QED BY <1>1, <3>2, <3>3, ThreadsCounted, FS_EmptySet
  <2>4. CASE ~Exists(a)
    <3>1. C' \subseteq C
      BY <1>5 DEF RemoveArticle, CommentsOf
    <3>2. QED BY <1>2, <2>2, <2>4, <3>1
  <2>5. QED BY <2>3, <2>4
<1>6. ASSUME NEW h \in Threads, SaveComment(h)
      PROVE  Cardinality(C') + Cardinality(P') < Cardinality(Threads)
  <2>0. /\ Finish(h, "comment") /\ doing[h] = "comment" /\ articles' = articles
        /\ req[h] \in [article: Articles, by: Users]
    BY <1>6 DEF SaveComment, Finish, NewsInv, ThreadsOK, RequestOK
  <2>1. ~Exists(a) /\ P' \subseteq P \ {h}
    BY <1>3, <2>0 DEF Exists
  <2>2. CASE comments' = comments
    BY <1>2, <2>1, <2>2 DEF CommentsOf
  <2>3. ASSUME NEW c \in Comments \ given,
               comments' = comments \cup {[id |-> c, article |-> req[h].article,
                                           author |-> req[h].by]}
        PROVE  Cardinality(C') + Cardinality(P') < Cardinality(Threads)
    <3> DEFINE row == [id |-> c, article |-> req[h].article, author |-> req[h].by]
    <3>1. /\ comments' = comments \cup {row}
          /\ row.id = c /\ row.article = req[h].article
      BY <2>3
    <3>2. row \notin comments
      BY <2>3, <3>1 DEF NewsInv, RowsOK
    <3> HIDE DEF row
    <3>3. CASE req[h].article # a
      <4>1. C' = C
        BY <3>1, <3>3 DEF CommentsOf
      <4>2. QED BY <1>2, <2>1, <4>1
    <3>4. CASE req[h].article = a
      <4>1. C' = C \cup {row} /\ row \notin C
        BY <3>1, <3>2, <3>4 DEF CommentsOf
      <4>2. Cardinality(C') = Cardinality(C) + 1
        BY <1>1, <4>1, OneMore
      <4>3. h \in P
        BY <2>0, <3>4 DEF PendingOn
      <4>4. Cardinality(P') + 1 <= Cardinality(P)
        BY <1>1, <2>1, <4>3, OneLess
      <4>5. Cardinality(C) + Cardinality(P) < Cardinality(Threads)
        BY <2>1 DEF OrphansInv
      <4>6. QED BY <1>1, <4>2, <4>4, <4>5
    <3>5. QED BY <3>3, <3>4
  <2>4. QED BY <1>6, <2>2, <2>3 DEF SaveComment
<1>7. ASSUME NEW h \in Threads, Ends(h), ~RemoveArticle(h), ~SaveComment(h)
      PROVE  Cardinality(C') + Cardinality(P') < Cardinality(Threads)
  <2>1. PICK save : Finish(h, save)
    BY <1>7 DEF Ends, SaveArticle, SaveEdit, SaveRevision, RemoveComment,
       SaveCategory, SaveRename, SaveFlag, RemoveAccount, Abandon
  <2>2. P' \subseteq P
    BY <1>3, <2>1
  <2>3. comments' \subseteq comments
    BY <1>7 DEF Ends, SaveArticle, SaveEdit, SaveRevision, RemoveComment,
       SaveCategory, SaveRename, SaveFlag, RemoveAccount, Abandon, discussion
  <2>4. Exists(a) => Exists(a)'
    <3>1. CASE SaveEdit(h)
      BY <3>1 DEF SaveEdit, Exists
    <3>2. CASE ~SaveEdit(h)
      <4>1. articles \subseteq articles'
        BY <1>7, <3>2 DEF Ends, SaveArticle, SaveRevision, RemoveComment,
           SaveCategory, SaveRename, SaveFlag, RemoveAccount, Abandon, discussion
      <4>2. QED BY <4>1 DEF Exists
    <3>3. QED BY <3>1, <3>2
  <2>5. QED BY <1>2, <2>2, <2>3, <2>4 DEF CommentsOf
<1>8. CASE UNCHANGED newsVars
  <2>1. ~Exists(a) /\ C' = C /\ P' = P
    BY <1>8 DEF newsVars, discussion, Exists, CommentsOf, PendingOn
  <2>2. QED BY <1>2, <2>1
<1>9. QED BY <1>4, <1>5, <1>6, <1>7, <1>8 DEF NewsNext

(* A user with the flag begins nothing, and what was begun before is begun *)
(* on other threads than the one that sets the flag.                       *)
LEMMA SpamStep ==
  ASSUME NewsInv, SpamInv, [NewsNext]_newsVars
  PROVE  SpamInv'
<1> SUFFICES ASSUME NEW u \in spam'
             PROVE  spoke'[u] + Cardinality(Speaking(u)') < Cardinality(Threads)
  BY DEF SpamInv
<1> DEFINE S == Speaking(u)
<1>1. /\ IsFiniteSet(S) /\ S \in SUBSET Threads /\ S' \in SUBSET Threads
      /\ Cardinality(S) \in Nat /\ Cardinality(S') \in Nat
      /\ Cardinality(Threads) \in Nat
      /\ u \in Users /\ spoke[u] \in Nat /\ spoke \in [Users -> Nat]
  <2>1. S \in SUBSET Threads /\ S' \in SUBSET Threads
    BY DEF Speaking
  <2>2. spoke \in [Users -> Nat] /\ u \in Users
    BY NewsInvNext DEF NewsInv, RowsOK
  <2>3. QED BY <2>1, <2>2, ThreadsCounted
<1>2. ASSUME u \in spam, spoke' = spoke, S' \subseteq S
      PROVE  spoke'[u] + Cardinality(S') < Cardinality(Threads)
  <2>1. Cardinality(S') <= Cardinality(S)
    BY <1>1, <1>2, NoMore
  <2>2. spoke[u] + Cardinality(S) < Cardinality(Threads)
    BY <1>2 DEF SpamInv
  <2>3. QED BY <1>1, <1>2, <2>1, <2>2
<1>3. ASSUME NEW h \in Threads, NEW save, Finish(h, save)
      PROVE  S' \subseteq S \ {h}
  <2>1. /\ doing'[h] = "idle"
        /\ \A g \in Threads \ {h} : doing'[g] = doing[g] /\ req'[g] = req[g]
    BY <1>3, FinishThreads DEF NewsInv
  <2>2. QED BY <2>1 DEF Speaking, Speech
<1>4. ASSUME NEW h \in Threads, NEW v \in Users, Starts(h, v)
      PROVE  spoke'[u] + Cardinality(S') < Cardinality(Threads)
  <2>1. PICK save, request :
          /\ save \in Savings /\ Start(h, v, save, request)
          /\ save \in Speech => v \notin spam /\ request.by = v
    BY <1>4, StartMade
  <2>2. u \in spam /\ spoke' = spoke
    BY <2>1 DEF Start
  <2>3. S' \subseteq S
    <3>1. /\ \A g \in Threads \ {h} : doing'[g] = doing[g] /\ req'[g] = req[g]
          /\ doing'[h] = save /\ req'[h] = request
      BY <2>1 DEF Start, NewsInv, ThreadsOK
    <3>2. QED BY <2>1, <2>2, <3>1 DEF Speaking
  <2>4. QED BY <1>2, <2>2, <2>3
<1>5. ASSUME NEW h \in Threads, NEW v \in Users, Spoken(v), spam' = spam,
             h \in Speaking(v), S' \subseteq S \ {h}
      PROVE  spoke'[u] + Cardinality(S') < Cardinality(Threads)
  <2>1. u \in spam /\ spoke[u] + Cardinality(S) < Cardinality(Threads)
    BY <1>5 DEF SpamInv
  <2>2. CASE u = v
    <3>1. spoke'[u] = spoke[u] + 1
      BY <1>1, <1>5, <2>1, <2>2 DEF Spoken
    <3>2. Cardinality(S') + 1 <= Cardinality(S)
      BY <1>1, <1>5, <2>2, OneLess
    <3>3. QED BY <1>1, <2>1, <3>1, <3>2
  <2>3. CASE u # v
    <3>1. spoke'[u] = spoke[u]
      BY <1>1, <1>5, <2>3 DEF Spoken
    <3>2. Cardinality(S') <= Cardinality(S)
      BY <1>1, <1>5, NoMore
    <3>3. QED BY <1>1, <2>1, <3>1, <3>2
  <2>4. QED BY <2>2, <2>3
<1>6. ASSUME NEW h \in Threads,
             SaveComment(h) \/ SaveRevision(h) \/ RemoveComment(h)
      PROVE  spoke'[u] + Cardinality(S') < Cardinality(Threads)
  <2>1. PICK save \in Speech : Finish(h, save)
    BY <1>6 DEF SaveComment, SaveRevision, RemoveComment, Speech
  <2>2. spam' = spam /\ S' \subseteq S \ {h}
    BY <1>3, <1>6, <2>1 DEF SaveComment, SaveRevision, RemoveComment
  <2>3. h \in Speaking(req[h].by) /\ req[h].by \in Users
    BY <2>1 DEF Finish, NewsInv, ThreadsOK, RequestOK, Speaking, Speech
  <2>4. spoke' = spoke \/ Spoken(req[h].by)
    BY <1>6 DEF SaveComment, SaveRevision, RemoveComment
  <2>5. QED BY <1>2, <1>5, <2>2, <2>3, <2>4
<1>7. ASSUME NEW h \in Threads, SaveFlag(h)
      PROVE  spoke'[u] + Cardinality(S') < Cardinality(Threads)
  <2>1. S' \subseteq S \ {h}
    BY <1>3, <1>7 DEF SaveFlag
  <2>2. CASE u \in spam /\ spoke' = spoke
    BY <1>2, <2>1, <2>2
  <2>3. CASE u \in spam /\ spoke' # spoke
    <3>1. /\ req[h].user \notin spam
          /\ spoke' = [spoke EXCEPT ![req[h].user] = 0]
      BY <1>7, <2>3 DEF SaveFlag
    <3>2. spoke'[u] = spoke[u]
      BY <1>1, <2>3, <3>1
    <3>3. Cardinality(S') <= Cardinality(S)
      BY <1>1, <2>1, NoMore
    <3>4. spoke[u] + Cardinality(S) < Cardinality(Threads)
      BY <2>3 DEF SpamInv
    <3>5. QED BY <1>1, <3>2, <3>3, <3>4
  <2>4. CASE u \notin spam
    <3>1. spoke' = [spoke EXCEPT ![u] = 0]
      BY <1>7, <2>4 DEF SaveFlag
    <3>2. spoke'[u] = 0
      BY <1>1, <3>1
    <3>3. S' \in SUBSET (Threads \ {h})
      BY <1>1, <2>1
    <3>4. QED BY <1>1, <3>2, <3>3, ThreadsCounted
  <2>5. QED BY <2>2, <2>3, <2>4
<1>8. ASSUME NEW h \in Threads,
             \/ SaveArticle(h) \/ SaveEdit(h) \/ RemoveArticle(h)
             \/ SaveCategory(h) \/ SaveRename(h) \/ RemoveAccount(h) \/ Abandon(h)
      PROVE  spoke'[u] + Cardinality(S') < Cardinality(Threads)
  <2>1. PICK save : Finish(h, save)
    BY <1>8 DEF SaveArticle, SaveEdit, RemoveArticle, SaveCategory, SaveRename,
       RemoveAccount, Abandon
  <2>2. spam' \subseteq spam /\ spoke' = spoke
    BY <1>8 DEF SaveArticle, SaveEdit, RemoveArticle, SaveCategory, SaveRename,
       RemoveAccount, Abandon
  <2>3. QED BY <1>2, <1>3, <2>1, <2>2
<1>9. CASE UNCHANGED newsVars
  <2>1. u \in spam /\ spoke' = spoke /\ S' = S
    BY <1>9 DEF newsVars, Speaking
  <2>2. QED BY <1>2, <2>1
<1>10. QED BY <1>4, <1>6, <1>7, <1>8, <1>9 DEF NewsNext, Ends

-----------------------------------------------------------------------------
(* The theorems about News.                                                *)

(* Whatever overlaps, rows keep the shapes of their tables, and no key is  *)
(* given to two of them (db/schema.rb:20-71).                              *)
THEOREM NewsTypeCorrect == NewsSpec => []NewsTypeOK
<1>1. NewsInv => NewsTypeOK
  BY DEF NewsInv, ThreadsOK, RowsOK, NamesOK, NewsTypeOK
<1>2. QED BY <1>1, NewsInvHolds, PTL

(* No page of an article meets a comment without an author, although       *)
(* comments are written while accounts are cancelled                       *)
(* (views/comments/_comment.html.erb:27).                                  *)
THEOREM AuthorsAreThere == NewsSpec => []CommentsHaveAuthors
BY NewsInvHolds, PTL DEF NewsInv

(* With n request threads an article that is destroyed leaves fewer than n *)
(* comments behind (comments_controller.rb:8).                             *)
THEOREM OrphansAreFew == NewsSpec => []OrphansBounded
<1>1. NewsInit => OrphansInv
  <2> SUFFICES ASSUME NewsInit, NEW a \in Articles
               PROVE  Cardinality(CommentsOf(a)) + Cardinality(PendingOn(a))
                        < Cardinality(Threads)
    BY DEF OrphansInv
  <2>1. CommentsOf(a) = {} /\ PendingOn(a) = {}
    BY DEF NewsInit, CommentsOf, PendingOn
  <2>2. PICK h : h \in Threads
    BY NewsAssumption
  <2>3. Cardinality({}) < Cardinality(Threads)
    BY <2>2, ThreadsCounted
  <2>4. QED BY <2>1, <2>3, FS_EmptySet
<1>2. NewsInv /\ OrphansInv => OrphansBounded
  <2> SUFFICES ASSUME NewsInv, OrphansInv, NEW a \in Articles, ~Exists(a)
               PROVE  Cardinality(CommentsOf(a)) < Cardinality(Threads)
    BY DEF OrphansBounded
  <2>1. CommentsOf(a) \subseteq comments /\ PendingOn(a) \in SUBSET Threads
    BY DEF CommentsOf, PendingOn
  <2>2. Cardinality(CommentsOf(a)) \in Nat /\ Cardinality(PendingOn(a)) \in Nat
    BY <2>1, NoMore, ThreadsCounted DEF NewsInv
  <2>3. QED BY <2>2, ThreadsCounted DEF OrphansInv
<1>3. QED BY <1>1, <1>2, OrphansStep, NewsInvHolds, PTL DEF NewsSpec

(* With n request threads fewer than n changes a user makes to comments    *)
(* come after the spam flag was set (comments_controller.rb:58-63).        *)
THEOREM SpamIsBounded == NewsSpec => []SpamBounded
<1>1. NewsInit => SpamInv
  BY DEF NewsInit, SpamInv
<1>2. NewsInv /\ SpamInv => SpamBounded
  <2> SUFFICES ASSUME NewsInv, SpamInv, NEW u \in spam
               PROVE  spoke[u] < Cardinality(Threads)
    BY DEF SpamBounded
  <2>1. Speaking(u) \in SUBSET Threads /\ spoke[u] \in Nat
    BY DEF Speaking, NewsInv, RowsOK
  <2>2. Cardinality(Speaking(u)) \in Nat
    BY <2>1, ThreadsCounted
  <2>3. QED BY <2>1, <2>2, ThreadsCounted DEF SpamInv
<1>3. QED BY <1>1, <1>2, SpamStep, NewsInvHolds, PTL DEF NewsSpec

(* Once no category is called Announcements no request of the site can     *)
(* call one so again (application_controller.rb:5-8).                      *)
THEOREM DownStaysDown == NewsSpec => DownForGood
<1>1. NewsInv /\ [NewsNext]_newsVars => [Down => Down']_newsVars
  <2> SUFFICES ASSUME NewsInv, NewsNext, Down PROVE Down'
    BY DEF newsVars
  <2>1. ASSUME NEW h \in Threads, NEW u \in Users, Starts(h, u)
        PROVE  FALSE
    BY <2>1, StartMade DEF Start, Down
  <2>2. PICK h \in Threads : Ends(h)
    BY <2>1 DEF NewsNext
  <2>3. PICK save : Finish(h, save)
    BY <2>2 DEF Ends, SaveArticle, SaveEdit, RemoveArticle, SaveComment,
       SaveRevision, RemoveComment, SaveCategory, SaveRename, SaveFlag,
       RemoveAccount, Abandon
  <2>4. /\ doing'[h] = "idle"
        /\ \A g \in Threads \ {h} : doing'[g] = doing[g] /\ req'[g] = req[g]
    BY <2>3, FinishThreads DEF NewsInv
  <2>5. \A k \in Categories : categories'[k] # Announcements
    <3>1. ASSUME NEW k \in Categories, NEW n, n # Announcements, Named!Claim(k, n)
          PROVE  \A c \in Categories : categories'[c] # Announcements
      BY <3>1 DEF Named!Claim, Down, Served, NewsInv, NamesOK
    <3>2. CASE SaveCategory(h)
      <4>1. req[h] # Announcements
        BY <3>2 DEF SaveCategory, Finish, Down
      <4>2. QED BY <3>1, <3>2, <4>1 DEF SaveCategory, Down, Served
    <3>3. CASE SaveRename(h)
      <4>1. req[h].name # Announcements /\ req[h].id \in Categories
        BY <3>3 DEF SaveRename, Finish, Down, NewsInv, ThreadsOK, RequestOK
      <4>2. QED BY <3>1, <3>3, <4>1 DEF SaveRename, Down, Served
    <3>4. CASE ~SaveCategory(h) /\ ~SaveRename(h)
      <4>1. categories' = categories
        BY <2>2, <3>4 DEF Ends, SaveArticle, SaveEdit, RemoveArticle,
           SaveComment, SaveRevision, RemoveComment, SaveFlag, RemoveAccount,
           Abandon
      <4>2. QED BY <4>1 DEF Down, Served
    <3>5. QED BY <3>2, <3>3, <3>4
  <2>6. QED BY <2>4, <2>5 DEF Down, Served
<1>2. QED BY <1>1, NewsInvHolds, PTL DEF NewsSpec, DownForGood

(* An article whose author's account is gone is not edited any more        *)
(* (app/models/article.rb:2).                                              *)
THEOREM WithoutAuthorFrozen == NewsSpec => FrozenWithoutAuthor
<1> DEFINE Frozen ==
             \A row \in articles : row.author \notin live =>
               row \in articles' \/ \A r \in articles' : r.id # row.id
<1>1. NewsInv /\ [NewsNext]_newsVars => [Frozen]_newsVars
  <2> SUFFICES ASSUME NewsInv, NewsNext, NEW row \in articles,
                      row.author \notin live
               PROVE  row \in articles' \/ \A r \in articles' : r.id # row.id
    BY DEF newsVars
  <2>1. ASSUME NEW h \in Threads, SaveEdit(h)
        PROVE  row \in articles'
    <3>1. row.id = req[h].id => row.author = req[h].author
      BY <2>1 DEF SaveEdit, Finish, NewsInv, EditOf
    <3>2. QED BY <2>1, <3>1 DEF SaveEdit
  <2>2. ASSUME NEW h \in Threads, RemoveArticle(h)
        PROVE  row \in articles' \/ \A r \in articles' : r.id # row.id
    BY <2>2 DEF RemoveArticle
  <2>3. ASSUME NEW h \in Threads, Ends(h), ~SaveEdit(h), ~RemoveArticle(h)
        PROVE  row \in articles'
    BY <2>3 DEF Ends, SaveArticle, SaveComment, SaveRevision, RemoveComment,
       SaveCategory, SaveRename, SaveFlag, RemoveAccount, Abandon, discussion
  <2>4. ASSUME NEW h \in Threads, NEW u \in Users, Starts(h, u)
        PROVE  row \in articles'
    BY <2>4, StartMade DEF Start, discussion
  <2>5. QED BY <2>1, <2>2, <2>3, <2>4 DEF NewsNext
<1>2. QED BY <1>1, NewsInvHolds, PTL DEF NewsSpec, FrozenWithoutAuthor
=============================================================================
