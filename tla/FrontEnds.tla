------------------------------ MODULE FrontEnds ------------------------------
(***************************************************************************)
(* The three front ends of the content service: the REST API               *)
(* (internal/handler/api.go), the web forms (internal/handler/web.go) and  *)
(* the MCP tools (internal/mcp/server.go).  Each turns what a client sent  *)
(* into one call of the service, or refuses it.  They differ in what they  *)
(* check and in what an empty field means.                                 *)
(***************************************************************************)
EXTENDS ContentService, FiniteSets

CONSTANTS Forms  \* Forms[r]: what the client of request r may send

\* What a client sends.  readable: the multipart body can be parsed, the archive
\* decoded from base64.  given: the metadata fields that are not empty (of a
\* tool: not omitted).  confirm and newconfirm: the second input of a web form.
\* uploads: the file of a multipart form, or html and zip_base64 of a tool.  empty:
\* that file has no bytes.
Form == [via : {"api", "web", "mcp"}, op : {"create", "update", "delete"},
         slug : Slugs \cup {None}, owner : Owners, readable : BOOLEAN,
         given : SUBSET Fields, pass : Passphrases \cup {None},
         confirm : Passphrases \cup {None}, newpass : Passphrases \cup {None},
         newconfirm : Passphrases \cup {None}, remove : BOOLEAN,
         uploads : SUBSET Upload, empty : BOOLEAN]

ASSUME FormsAssumption ==
  /\ Forms \in [Requests -> SUBSET Form]
  /\ None \notin Form /\ None \notin Slugs
  \* a path or a form always has a slug; only a tool may be called without
  /\ \A r \in Requests : \A f \in Forms[r] : f.slug = None => f.via = "mcp"

VARIABLE form  \* form[r]: what the client of r sent, None before

frontVars == <<content, files, req, faults, form>>

FrontInit == Init /\ form = [r \in Requests |-> None]

-----------------------------------------------------------------------------
(* The parameters of the call a form makes.                                *)

\* The file of a form, None when it has none.
FileOf(f) == IF f.uploads = {} THEN None ELSE CHOOSE u \in f.uploads : TRUE

\* For an update a file of no bytes is none.  A create stores it: an empty page, or
\* an archive that cannot be read.
Replacement(f) == IF f.empty THEN None ELSE FileOf(f)

CreateParams(f) ==
  [op |-> "create", slug |-> f.slug, owner |-> f.owner, pass |-> f.pass,
   newpass |-> None, remove |-> FALSE, sets |-> Fields, upload |-> FileOf(f)]

UpdateParams(f, sets, newpass) ==
  [op |-> "update", slug |-> f.slug, owner |-> f.owner, pass |-> f.pass,
   newpass |-> newpass, remove |-> f.remove, sets |-> sets, upload |-> Replacement(f)]

DeleteParams(f) ==
  [op |-> "delete", slug |-> f.slug, owner |-> f.owner, pass |-> None,
   newpass |-> None, remove |-> FALSE, sets |-> {}, upload |-> None]

\* A multipart body that cannot be parsed, to a handler that ignores the error:
\* every field reads as empty and there is no file.
Read(f) == IF f.readable THEN f
           ELSE [f EXCEPT !.given = {}, !.pass = None, !.confirm = None,
                          !.newpass = None, !.newconfirm = None,
                          !.remove = FALSE, !.uploads = {}]

\* APIHandler.CreateContent and UpdateContent: an empty field is a nil pointer.
ApiCreate(f) == IF f.readable /\ f.uploads # {} THEN CreateParams(f) ELSE None

\* Mutant of ApiUpdate: the fields are passed whether they are empty or not.
ApiUpdateBlanks(f) == UpdateParams(Read(f), Fields, Read(f).newpass)

ApiUpdate(f) == UpdateParams(Read(f), Read(f).given, Read(f).newpass)

\* UploadSubmit.
WebCreate(f) == IF f.readable /\ f.pass = f.confirm /\ f.uploads # {}
                THEN CreateParams(f) ELSE None

\* EditSubmit: every field is passed, also one that reads as empty; turning the
\* encryption off drops the new passphrase.
WebUpdate(f) ==
  IF Read(f).newpass # Read(f).newconfirm THEN None
  ELSE UpdateParams(Read(f), Fields, IF Read(f).remove THEN None ELSE Read(f).newpass)

\* The tools create_content and update_content, with siteData: one of html and
\* zip_base64, and at most one.
McpCreate(f) == IF f.readable /\ Cardinality(f.uploads) = 1
                THEN CreateParams(f) ELSE None
McpUpdate(f) == IF f.readable /\ Cardinality(f.uploads) <= 1
                THEN UpdateParams(f, f.given, f.newpass) ELSE None

\* The call that form f makes, None when the front end refuses it.
Translated(f) ==
  IF f.slug = None THEN None
  ELSE IF f.op = "delete" THEN DeleteParams(f)
  ELSE IF f.op = "create"
       THEN CASE f.via = "api" -> ApiCreate(f) [] f.via = "web" -> WebCreate(f)
              [] f.via = "mcp" -> McpCreate(f)
       ELSE CASE f.via = "api" -> ApiUpdate(f) [] f.via = "web" -> WebUpdate(f)
              [] f.via = "mcp" -> McpUpdate(f)

\* Plans names the calls that the forms make.
ASSUME PlansCoverForms ==
  \A r \in Requests : \A f \in Forms[r] : Translated(f) \in Plans[r] \cup {None}

-----------------------------------------------------------------------------

\* A client sends f: the service is called, or the request ends here.
Submit(r, f) ==
  /\ form[r] = None
  /\ form' = [form EXCEPT ![r] = f]
  /\ IF Translated(f) = None THEN req[r].pc = "idle" /\ UNCHANGED vars
                             ELSE Make(r, Translated(f))

Refusal(r) == form[r] # None /\ Translated(form[r]) = None

\* The statements of the service.
Serves(r) == \/ CheckSlug(r) \/ InsertContent(r) \/ PutFile(r) \/ UndoCreate(r)
             \/ LoadContent(r) \/ ListFiles(r) \/ ApplyEncryption(r)
             \/ SaveContent(r) \/ DropFiles(r) \/ DeleteContent(r)

AllAnswered == /\ \A r \in Requests : req[r].pc = "done" \/ Refusal(r)
               /\ UNCHANGED vars

FrontNext == \/ \E r \in Requests, f \in UNION {Forms[s] : s \in Requests} :
                  f \in Forms[r] /\ Submit(r, f)
             \/ (\E r \in Requests : Serves(r)) /\ UNCHANGED form
             \/ (Crash \/ AllAnswered) /\ UNCHANGED form

FrontSpec == FrontInit /\ [][FrontNext]_frontVars

-----------------------------------------------------------------------------
(* Properties.                                                             *)

\* What the client of r has sent supplies field x.
Supplies(r, x) == form[r] # None /\ (form[r].via = "web" \/ x \in form[r].given)

\* "All fields are optional - only provided fields are updated" (REST), "Only
\* supplied metadata fields are changed" (MCP): a stored field changes only by a
\* request whose form supplies it; the web forms always supply all of them.
OnlySupplied ==
  [][\A c \in Requests, x \in Fields :
       /\ content[c] # None /\ content'[c] # None
       /\ content'[c].meta[x] # content[c].meta[x]
       => \E r \in Requests : req'[r] # req[r] /\ Supplies(r, x)]_frontVars

\* What could not be read is not stored: no file comes from such a form, no
\* envelope, and no field but the blanks that the web's edit form leaves.
UnreadableContained ==
  LET unread == {r \in Requests : form[r] # None /\ ~form[r].readable}
  IN /\ \A f \in files : f.by \notin unread
     /\ \A c \in Requests : content[c] # None =>
          /\ content[c].env # None => content[c].env.dek \notin unread
          /\ \A x \in Fields : content[c].meta[x] \in unread =>
               form[content[c].meta[x]].via = "web" /\ form[content[c].meta[x]].op = "update"

=============================================================================
