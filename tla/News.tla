-------------------------------- MODULE News --------------------------------
(***************************************************************************)
(* Articles, their comments and their categories (app/controllers/         *)
(* articles_controller.rb, comments_controller.rb,                         *)
(* categories_controller.rb), the flag that keeps a user from commenting   *)
(* (users_controller.rb mark_spam) and accounts that are cancelled.  As in *)
(* Tickets, a request is two steps: its filters and finders decide on what *)
(* they load; its save is one atomic step (module UserSaves).              *)
(*                                                                         *)
(* The first filter of every request loads the category Announcements and  *)
(* uses it: without one, every page raises.                                *)
(*                                                                         *)
(* Left out: what a comment says, the images of articles and which         *)
(* categories they are in.                                                 *)
(***************************************************************************)
EXTENDS Naturals, FiniteSets

CONSTANTS
  Users,          (* accounts                                              *)
  Admins,         (* those with the admin flag, which no handler sets      *)
  Articles,       (* primary keys of articles                              *)
  Texts,          (* titles and descriptions                               *)
  Comments,       (* primary keys of comments                              *)
  Categories,     (* primary keys of categories                            *)
  CategoryNames,
  NoCategory,     (* the name of a category that does not exist            *)
  Announcements,
  Threads         (* request threads: a pool of fixed size                 *)

ASSUME NewsAssumption ==
  /\ Admins \subseteq Users
  /\ Articles \cap Comments = {}
  /\ Announcements \in CategoryNames /\ NoCategory \notin CategoryNames
  /\ Threads # {} /\ IsFiniteSet(Threads)

VARIABLES
  live,       (* accounts that have not been cancelled                     *)
  spam,       (* accounts with the spam flag                               *)
  articles,   (* rows of articles                                          *)
  comments,   (* rows of comments                                          *)
  given,      (* primary keys given out, never given again                 *)
  categories, (* the name of each category                                 *)
  doing,      (* what each thread is about to save                         *)
  req,        (* what each thread's handler holds in memory                *)
  spoke       (* history, read by no action: changes a user made to        *)
              (* comments since the spam flag was set                      *)

discussion == <<articles, comments, given>>
newsVars == <<live, spam, discussion, categories, doing, req, spoke>>

ArticleRow == [id: Articles, author: Users, text: Texts]
CommentRow == [id: Comments, article: Articles, author: Users]

\* categories.name is unique by a validation, as usernames are
Named == INSTANCE UniqueNames
           WITH Accounts <- Categories, Names <- CategoryNames,
                NoName <- NoCategory, table <- categories

NoRequest == <<>>
Speech    == {"comment", "revise", "remove"}
Savings   == Speech \cup {"article", "edit", "unpublish", "category", "rename",
                          "flag", "cancel"}

NewsInit ==
  /\ live = Users /\ spam = {}
  /\ articles = {} /\ comments = {} /\ given = {}
  /\ \E k \in Categories :
       categories = [c \in Categories |->
                       IF c = k THEN Announcements ELSE NoCategory]
  /\ doing = [h \in Threads |-> "idle"]
  /\ req = [h \in Threads |-> NoRequest]
  /\ spoke = [u \in Users |-> 0]

Exists(a) == \E row \in articles : row.id = a

(* set_variables                                                           *)
Served == \E k \in Categories : categories[k] = Announcements

(* u is signed in and the filters pass; nothing is written yet.            *)
Start(h, u, save, request) ==
  /\ doing[h] = "idle" /\ u \in live /\ Served
  /\ doing' = [doing EXCEPT ![h] = save]
  /\ req' = [req EXCEPT ![h] = request]
  /\ UNCHANGED <<live, spam, discussion, categories, spoke>>

Finish(h, save) ==
  /\ doing[h] = save
  /\ doing' = [doing EXCEPT ![h] = "idle"]
  /\ req' = [req EXCEPT ![h] = NoRequest]
-----------------------------------------------------------------------------
(* articles#create, update and destroy, of administrators.                 *)
WriteArticle(h, u, t) ==
  /\ u \in Admins
  /\ Start(h, u, "article", [author |-> u, text |-> t])

(* The author's presence is checked on the user in memory.                 *)
SaveArticle(h) ==
  LET new == req[h] IN
  /\ Finish(h, "article")
  /\ \E k \in Articles \ given :
       /\ articles' = articles \cup {[id |-> k, author |-> new.author,
                                      text |-> new.text]}
       /\ given' = given \cup {k}
  /\ UNCHANGED <<live, spam, comments, categories, spoke>>

(* An update that changes nothing writes nothing, and is left out.         *)
EditArticle(h, u, a, t) ==
  /\ u \in Admins
  /\ \E row \in articles :
       /\ row.id = a /\ row.text # t
       /\ Start(h, u, "edit", [row EXCEPT !.text = t])

(* An article must have an author, and here it is loaded: without one the  *)
(* form is shown again.  No row is written when the article is gone.       *)
SaveEdit(h) ==
  LET new == req[h] IN
  /\ Finish(h, "edit")
  /\ articles' = IF new.author \in live
                 THEN {IF row.id = new.id THEN new ELSE row : row \in articles}
                 ELSE articles
  /\ UNCHANGED <<live, spam, comments, given, categories, spoke>>

DestroyArticle(h, u, a) ==
  /\ u \in Admins /\ Exists(a)
  /\ Start(h, u, "unpublish", a)

(* Faulty variant: the comments of an article outlive it.                  *)
RemoveArticleOnly(h) ==
  /\ Finish(h, "unpublish")
  /\ articles' = {row \in articles : row.id # req[h]}
  /\ UNCHANGED <<live, spam, comments, given, categories, spoke>>

(* dependent: :destroy                                                     *)
RemoveArticle(h) ==
  /\ Finish(h, "unpublish")
  /\ articles' = {row \in articles : row.id # req[h]}
  /\ comments' = {row \in comments : row.article # req[h]}
  /\ UNCHANGED <<live, spam, given, categories, spoke>>
-----------------------------------------------------------------------------
(* comments#create, update and destroy: find_article and find_comment load *)
(* the rows, require_not_spam reads the flag of the user loaded.           *)

(* Faulty variant: require_not_spam does not cover create.                 *)
WriteCommentAnyway(h, u, a) ==
  /\ Exists(a)
  /\ Start(h, u, "comment", [article |-> a, by |-> u])

WriteComment(h, u, a) ==
  /\ Exists(a) /\ u \notin spam
  /\ Start(h, u, "comment", [article |-> a, by |-> u])

(* A change to a comment by u, counted while u has the flag.               *)
Spoken(u) == spoke' = IF u \in spam THEN [spoke EXCEPT ![u] = @ + 1] ELSE spoke

(* Faulty variant: the author's row is not looked for.                     *)
SaveCommentUnchecked(h) ==
  LET new == req[h] IN
  /\ Finish(h, "comment")
  /\ \E c \in Comments \ given :
       /\ comments' = comments \cup {[id |-> c, article |-> new.article,
                                      author |-> new.by]}
       /\ given' = given \cup {c}
  /\ Spoken(new.by)
  /\ UNCHANGED <<live, spam, articles, categories>>

(* The first create fails its validation, for the author is set only after *)
(* it.  save needs the author's row; the article is the one in memory.     *)
SaveComment(h) ==
  LET new == req[h] IN
  /\ Finish(h, "comment")
  /\ \/ /\ new.by \in live
        /\ \E c \in Comments \ given :
             /\ comments' = comments \cup {[id |-> c, article |-> new.article,
                                            author |-> new.by]}
             /\ given' = given \cup {c}
        /\ Spoken(new.by)
     \/ new.by \notin live /\ UNCHANGED <<comments, given, spoke>>
  /\ UNCHANGED <<live, spam, articles, categories>>

EditComment(h, u, c) ==
  /\ u \notin spam
  /\ \E row \in comments : row.id = c /\ row.author = u /\ Exists(row.article)
  /\ Start(h, u, "revise", [comment |-> c, by |-> u])

(* What it says changes, which is left out.                                *)
SaveRevision(h) ==
  LET new == req[h]
      saved == new.by \in live /\ \E row \in comments : row.id = new.comment IN
  /\ Finish(h, "revise")
  /\ IF saved THEN Spoken(new.by) ELSE UNCHANGED spoke
  /\ UNCHANGED <<live, spam, discussion, categories>>

(* by the comment's author or an administrator                             *)
DestroyComment(h, u, c) ==
  /\ u \notin spam
  /\ \E row \in comments : /\ row.id = c /\ Exists(row.article)
                           /\ row.author = u \/ u \in Admins
  /\ Start(h, u, "remove", [comment |-> c, by |-> u])

RemoveComment(h) ==
  LET old == req[h] IN
  /\ Finish(h, "remove")
  /\ comments' = {row \in comments : row.id # old.comment}
  /\ IF comments' # comments THEN Spoken(old.by) ELSE UNCHANGED spoke
  /\ UNCHANGED <<live, spam, articles, given, categories>>
-----------------------------------------------------------------------------
(* categories#create and update, of administrators; none is ever destroyed.*)
CreateCategory(h, u, n) ==
  /\ u \in Admins
  /\ Start(h, u, "category", n)

(* a name that is taken ends the save with false                           *)
NameTaken(k, n) == \E c \in Categories \ {k} : categories[c] = n

SaveCategory(h) ==
  LET n == req[h] IN
  /\ Finish(h, "category")
  /\ \E k \in Categories :
       /\ categories[k] = NoCategory
       /\ \/ Named!Claim(k, n)
          \/ NameTaken(k, n) /\ UNCHANGED categories
  /\ UNCHANGED <<live, spam, discussion, spoke>>

(* Faulty variant: the filter set_variables does not cover update.         *)
RenameAnyway(h, u, k, n) ==
  /\ u \in Admins \cap live /\ doing[h] = "idle"
  /\ categories[k] \notin {NoCategory, n}
  /\ doing' = [doing EXCEPT ![h] = "rename"]
  /\ req' = [req EXCEPT ![h] = [id |-> k, name |-> n]]
  /\ UNCHANGED <<live, spam, discussion, categories, spoke>>

RenameCategory(h, u, k, n) ==
  /\ u \in Admins
  /\ categories[k] \notin {NoCategory, n}
  /\ Start(h, u, "rename", [id |-> k, name |-> n])

SaveRename(h) ==
  LET k == req[h].id
      n == req[h].name IN
  /\ Finish(h, "rename")
  /\ \/ Named!Claim(k, n)
     \/ NameTaken(k, n) /\ UNCHANGED categories
  /\ UNCHANGED <<live, spam, discussion, spoke>>
-----------------------------------------------------------------------------
(* users#mark_spam, of administrators: toggles the flag of the row loaded. *)
MarkSpam(h, u, v) ==
  /\ u \in Admins /\ v \in live
  /\ Start(h, u, "flag", [user |-> v, flag |-> v \notin spam])

SaveFlag(h) ==
  LET v == req[h].user IN
  /\ Finish(h, "flag")
  /\ IF v \in live /\ req[h].flag
     THEN /\ spam' = spam \cup {v}
          /\ spoke' = IF v \in spam THEN spoke ELSE [spoke EXCEPT ![v] = 0]
     ELSE spam' = spam \ {v} /\ UNCHANGED spoke
  /\ UNCHANGED <<live, discussion, categories>>

(* Account cancellation (Devise's DELETE /users) takes the user's comments *)
(* with it and leaves the articles (app/models/user.rb:2-4).               *)
CancelAccount(h, u) == Start(h, u, "cancel", u)

RemoveAccount(h) ==
  LET u == req[h] IN
  /\ Finish(h, "cancel")
  /\ live' = live \ {u} /\ spam' = spam \ {u}
  /\ comments' = {row \in comments : row.author # u}
  /\ UNCHANGED <<articles, given, categories, spoke>>

(* A save raises or its input is refused, or the server stops.             *)
Abandon(h) ==
  /\ doing[h] # "idle"
  /\ Finish(h, doing[h])
  /\ UNCHANGED <<live, spam, discussion, categories, spoke>>
-----------------------------------------------------------------------------
Starts(h, u) ==
  \/ \E t \in Texts : WriteArticle(h, u, t)
  \/ \E a \in Articles, t \in Texts : EditArticle(h, u, a, t)
  \/ \E a \in Articles : DestroyArticle(h, u, a) \/ WriteComment(h, u, a)
  \/ \E c \in Comments : EditComment(h, u, c) \/ DestroyComment(h, u, c)
  \/ \E n \in CategoryNames : CreateCategory(h, u, n)
  \/ \E k \in Categories, n \in CategoryNames : RenameCategory(h, u, k, n)
  \/ \E v \in Users : MarkSpam(h, u, v)
  \/ CancelAccount(h, u)

Ends(h) ==
  \/ SaveArticle(h) \/ SaveEdit(h) \/ RemoveArticle(h)
  \/ SaveComment(h) \/ SaveRevision(h) \/ RemoveComment(h)
  \/ SaveCategory(h) \/ SaveRename(h)
  \/ SaveFlag(h) \/ RemoveAccount(h)
  \/ Abandon(h)

NewsNext == \E h \in Threads : Ends(h) \/ \E u \in Users : Starts(h, u)

NewsSpec == NewsInit /\ [][NewsNext]_newsVars
-----------------------------------------------------------------------------
(* What a handler that is about to make a save holds.                      *)
RequestOK(save, request) ==
  /\ save = "article" => request \in [author: Users, text: Texts]
  /\ save = "edit" => request \in ArticleRow
  /\ save = "unpublish" => request \in Articles
  /\ save = "comment" => request \in [article: Articles, by: Users]
  /\ save \in {"revise", "remove"} => request \in [comment: Comments, by: Users]
  /\ save = "category" => request \in CategoryNames
  /\ save = "rename" => request \in [id: Categories, name: CategoryNames]
  /\ save = "flag" => request \in [user: Users, flag: BOOLEAN]
  /\ save = "cancel" => request \in Users

(* Type correctness, with primary keys that identify rows.                 *)
NewsTypeOK ==
  /\ live \subseteq Users /\ spam \subseteq Users
  /\ articles \subseteq ArticleRow /\ comments \subseteq CommentRow
  /\ \A r1, r2 \in articles : r1.id = r2.id => r1 = r2
  /\ \A r1, r2 \in comments : r1.id = r2.id => r1 = r2
  /\ given \subseteq Articles \cup Comments
  /\ \A row \in articles \cup comments : row.id \in given
  /\ categories \in [Categories -> CategoryNames \cup {NoCategory}]
  /\ doing \in [Threads -> Savings \cup {"idle"}] /\ DOMAIN req = Threads
  /\ \A h \in Threads : RequestOK(doing[h], req[h])
  /\ spoke \in [Users -> Nat]

(* Every comment has an author, whom the page of its article names         *)
(* (views/comments/_comment.html.erb:27): a comment that overtakes the     *)
(* cancellation of its author's account goes with it, one that comes later *)
(* is refused (app/models/user.rb:4, comments_controller.rb:8-12).         *)
CommentsHaveAuthors == \A row \in comments : row.author \in live

CommentsOf(a) == {row \in comments : row.article = a}

(* An article that is gone leaves comments behind only where they were     *)
(* being written when it went: fewer than there are threads                *)
(* (comments_controller.rb:8, articles_controller.rb:44).                  *)
OrphansBounded ==
  \A a \in Articles :
    ~Exists(a) => Cardinality(CommentsOf(a)) < Cardinality(Threads)

(* The check of the flag can be overtaken by mark_spam, but each other     *)
(* thread can be in the middle of one change only                          *)
(* (comments_controller.rb:58-63).                                         *)
SpamBounded == \A u \in spam : spoke[u] < Cardinality(Threads)

(* No category is called Announcements, nor about to be.                   *)
Down ==
  /\ ~Served
  /\ \A h \in Threads : /\ doing[h] = "category" => req[h] # Announcements
                        /\ doing[h] = "rename" => req[h].name # Announcements

(* The site cannot be brought back by the site: once no category is called *)
(* Announcements, the page that would rename one raises like every other   *)
(* (application_controller.rb:5-8).                                        *)
DownForGood == [][Down => Down']_newsVars

(* An article outlives its author's account, and then nobody can edit it:  *)
(* it stays as it is until it is destroyed (app/models/article.rb:2).      *)
FrozenWithoutAuthor ==
  [][\A row \in articles : row.author \notin live =>
       row \in articles' \/ \A r \in articles' : r.id # row.id]_newsVars
=============================================================================
