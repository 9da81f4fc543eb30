----------------------------- MODULE FileHosting -----------------------------
(***************************************************************************)
(* The file hosting service of src/file_hosting.rs: a hosted file is two    *)
(* files on disk, the content under a fresh id and its metadata beside it,  *)
(* and a signed link that carries its own expiry. Saving, serving and the   *)
(* cleanup task run beside each other, each file operation is awaited, and  *)
(* the process may die between any two of them; a file that is being        *)
(* written exists and is incomplete.                                        *)
(*                                                                          *)
(* The clock counts seconds, as the code's timestamps do. The signature is  *)
(* left out: a link here is one that the service made.                      *)
(***************************************************************************)
EXTENDS Integers, FiniteSets

CONSTANTS
  Files,      \* the ids of the files that are hosted (uuid v4, never reused)
  TTL,        \* life of a link, and of a file, in seconds
  LastSecond, \* bound of the clock
  NoTime      \* no timestamp

ASSUME HostingAssumption ==
  /\ TTL \in Nat
  /\ LastSecond \in Nat
  /\ NoTime \notin Int

VARIABLES
  clock,      \* the system's clock
  saving,     \* file -> how far its save has come, see Saves
  content,    \* file -> "none", "partial" or "whole": the content on disk
  meta,       \* file -> the same of <id>.meta.json
  createdAt,  \* file -> created_at of its metadata
  expires,    \* file -> when its link expires, NoTime without one
  sweep,      \* the cleanup task: [at, file, todo]
  download,   \* the request for a download: [at, file, answer]
  cutSaves,   \* history: files whose save an error or a crash ended
  cutRemovals,\* history: files whose removal an error or a crash ended
  due         \* history: what the current pass of the cleanup should remove

hostingVars == << clock, saving, content, meta, createdAt, expires,
                  sweep, download, cutSaves, cutRemovals, due >>
disk == << content, meta >>
save == << saving, createdAt, expires >>
history == << cutSaves, cutRemovals, due >>

Saves == {"none", "content", "writing", "meta", "describing", "saved",
          "linked", "failed"}

NoSweep == [at |-> "idle", todo |-> {}]
NoDownload == [at |-> "idle"]

HostingInit ==
  /\ clock = 0
  /\ saving = [f \in Files |-> "none"]
  /\ content = [f \in Files |-> "none"]
  /\ meta = [f \in Files |-> "none"]
  /\ createdAt = [f \in Files |-> NoTime]
  /\ expires = [f \in Files |-> NoTime]
  /\ sweep = NoSweep
  /\ download = NoDownload
  /\ cutSaves = {}
  /\ cutRemovals = {}
  /\ due = {}

Tick ==
  /\ clock < LastSecond
  /\ clock' = clock + 1
  /\ UNCHANGED << save, disk, sweep, download, history >>

-----------------------------------------------------------------------------
\* save_bytes, then generate_download_url.

SaveGoesOn(f, from, to) ==
  /\ saving[f] = from
  /\ saving' = [saving EXCEPT ![f] = to]

\* The timestamp is taken before anything is written.
BeginSave(f) ==
  /\ SaveGoesOn(f, "none", "content")
  /\ createdAt' = [createdAt EXCEPT ![f] = clock]
  /\ UNCHANGED << clock, expires, disk, sweep, download, history >>

WriteContent(f) ==
  /\ \/ /\ SaveGoesOn(f, "content", "writing")
        /\ content' = [content EXCEPT ![f] = "partial"]
     \/ /\ SaveGoesOn(f, "writing", "meta")
        /\ content' = [content EXCEPT ![f] = "whole"]
  /\ UNCHANGED << clock, createdAt, expires, meta, sweep, download, history >>

WriteMeta(f) ==
  /\ \/ /\ SaveGoesOn(f, "meta", "describing")
        /\ meta' = [meta EXCEPT ![f] = "partial"]
     \/ /\ SaveGoesOn(f, "describing", "saved")
        /\ meta' = [meta EXCEPT ![f] = "whole"]
  /\ UNCHANGED << clock, createdAt, expires, content, sweep, download, history >>

\* A write fails: the caller gets an error, and what is on disk stays.
SaveFails(f) ==
  /\ saving[f] \in {"content", "writing", "meta", "describing"}
  /\ saving' = [saving EXCEPT ![f] = "failed"]
  /\ cutSaves' = cutSaves \cup {f}
  /\ UNCHANGED << clock, createdAt, expires, disk, sweep, download, cutRemovals, due >>

\* The broker passes no created_at, so the link's time starts now.
MakeLink(f) ==
  /\ SaveGoesOn(f, "saved", "linked")
  /\ expires' = [expires EXCEPT ![f] = clock + TTL]
  /\ UNCHANGED << clock, createdAt, disk, sweep, download, history >>

-----------------------------------------------------------------------------
\* cleanup_expired: a pass over the directory.

\* MUTANT of Expired: a second early.
ExpiredEarly(f) == clock >= createdAt[f] + TTL

Expired(f) == clock > createdAt[f] + TTL

BeginPass ==
  /\ sweep.at = "idle"
  /\ sweep' = [at |-> "entry", todo |-> {f \in Files : content[f] # "none"}]
  /\ due' = {f \in Files : content[f] # "none" /\ meta[f] = "whole" /\ Expired(f)}
  /\ UNCHANGED << clock, save, disk, download, cutSaves, cutRemovals >>

\* MUTANT of Judge: an entry without usable metadata ends the pass.
JudgeOrStop(f) ==
  /\ sweep.at = "entry"
  /\ f \in sweep.todo
  /\ sweep' = IF meta[f] # "whole" THEN [at |-> "entry", todo |-> {}]
              ELSE [at |-> IF Expired(f) THEN "content" ELSE "entry",
                    file |-> f, todo |-> sweep.todo \ {f}]
  /\ UNCHANGED << clock, save, disk, download, history >>

\* Only metadata that is there, can be read and parses can condemn a file.
Judge(f) ==
  /\ sweep.at = "entry"
  /\ f \in sweep.todo
  /\ \/ /\ sweep' = [at |-> IF meta[f] = "whole" /\ Expired(f) THEN "content" ELSE "entry",
                     file |-> f, todo |-> sweep.todo \ {f}]
        /\ UNCHANGED due
     \/ /\ meta[f] # "none"
        /\ sweep' = [at |-> "entry", file |-> f, todo |-> sweep.todo \ {f}]
        /\ due' = due \ {f}
  /\ UNCHANGED << clock, save, disk, download, cutSaves, cutRemovals >>

\* MUTANT of RemoveContent: the metadata is forgotten.
RemoveContentOnly ==
  /\ sweep.at = "content"
  /\ content' = [content EXCEPT ![sweep.file] = "none"]
  /\ sweep' = [sweep EXCEPT !.at = "entry"]
  /\ UNCHANGED << clock, save, meta, download, history >>

\* The content goes first; when that fails the metadata stays too.
RemoveContent ==
  /\ sweep.at = "content"
  /\ \/ /\ content' = [content EXCEPT ![sweep.file] = "none"]
        /\ sweep' = [sweep EXCEPT !.at = "meta"]
        /\ UNCHANGED due
     \/ /\ sweep' = [sweep EXCEPT !.at = "entry"]
        /\ due' = due \ {sweep.file}
        /\ UNCHANGED content
  /\ UNCHANGED << clock, save, meta, download, cutSaves, cutRemovals >>

\* An error here is ignored.
RemoveMeta ==
  /\ sweep.at = "meta"
  /\ \/ /\ meta' = [meta EXCEPT ![sweep.file] = "none"]
        /\ UNCHANGED cutRemovals
     \/ /\ cutRemovals' = cutRemovals \cup {sweep.file}
        /\ UNCHANGED meta
  /\ sweep' = [sweep EXCEPT !.at = "entry"]
  /\ UNCHANGED << clock, save, content, download, cutSaves, due >>

\* The directory is at its end, or cannot be read on.
EndPass ==
  /\ sweep.at = "entry"
  /\ sweep' = NoSweep
  /\ due' = {}
  /\ UNCHANGED << clock, save, disk, download, cutSaves, cutRemovals >>

-----------------------------------------------------------------------------
\* serve_download: the link, then the content, then the metadata.

VerifyLink(f) ==
  /\ download.at \in {"idle", "answered"}
  /\ expires[f] # NoTime
  /\ download' = IF expires[f] > clock
                 THEN [at |-> "content", file |-> f]
                 ELSE [at |-> "answered", file |-> f, answer |-> "expired"]
  /\ UNCHANGED << clock, save, disk, sweep, history >>

AnswerWith(what) ==
  download' = [at |-> "answered", file |-> download.file, answer |-> what]

\* read_file: no content is "not found". A read may fail, also because the file
\* went away since it was looked for.
ReadContent ==
  /\ download.at = "content"
  /\ \/ /\ content[download.file] = "none"
        /\ AnswerWith("not found")
     \/ /\ content[download.file] # "none"
        /\ download' = [download EXCEPT !.at = "meta"]
     \/ AnswerWith("failed")
  /\ UNCHANGED << clock, save, disk, sweep, history >>

\* read_file: without metadata the file is served under its id, as a stream of
\* bytes; metadata that does not parse is an error.
ReadMeta ==
  /\ download.at = "meta"
  /\ \/ AnswerWith(CASE meta[download.file] = "whole" -> "served"
                     [] meta[download.file] = "none" -> "unnamed"
                     [] meta[download.file] = "partial" -> "error")
     \/ AnswerWith("failed")
  /\ UNCHANGED << clock, save, disk, sweep, history >>

ServeDownload ==
  \/ \E f \in Files : VerifyLink(f)
  \/ ReadContent
  \/ ReadMeta

-----------------------------------------------------------------------------

\* The process dies and starts again: the cleanup's first pass is at once.
HostingCrash ==
  /\ \/ \E f \in Files : saving[f] \notin {"none", "linked", "failed"}
     \/ sweep.at # "idle"
  /\ saving' = [f \in Files |-> IF saving[f] \in {"none", "linked"}
                                THEN saving[f] ELSE "failed"]
  /\ cutSaves' = cutSaves \cup {f \in Files : saving'[f] = "failed"}
  /\ cutRemovals' = IF sweep.at = "meta" THEN cutRemovals \cup {sweep.file}
                                         ELSE cutRemovals
  /\ sweep' = NoSweep
  /\ download' = NoDownload
  /\ due' = {}
  /\ UNCHANGED << clock, createdAt, expires, disk >>

CleanupStep ==
  \/ BeginPass
  \/ \E f \in Files : Judge(f)
  \/ RemoveContent
  \/ RemoveMeta
  \/ EndPass

HostingNext ==
  \/ Tick
  \/ \E f \in Files :
       \/ BeginSave(f) \/ WriteContent(f) \/ WriteMeta(f) \/ SaveFails(f)
       \/ MakeLink(f)
  \/ CleanupStep
  \/ ServeDownload
  \/ HostingCrash

HostingSpec == HostingInit /\ [][HostingNext]_hostingVars

-----------------------------------------------------------------------------
(***************************************************************************)
(* Properties                                                              *)
(***************************************************************************)

\* A link made within a second of the file's timestamp is good for as long as
\* it says: whoever uses it before it expires is served the file under its
\* name, if the disk can be read. (One made later outlives the file, which the
\* cleanup may remove.)
PromptLinkServes ==
  LET f == download.file IN
  /\ download.at = "answered"
  /\ clock < expires[f]
  /\ expires[f] - TTL <= createdAt[f] + 1
  => download.answer \in {"served", "failed"}

\* What the cleanup can never remove is left by an interrupted operation only:
\* content without whole metadata by a save, metadata without content by a
\* removal.
LeftoverHasCause ==
  \A f \in Files :
    /\ content[f] # "none" /\ meta[f] # "whole"
         => \/ f \in cutSaves
            \/ saving[f] \in {"writing", "meta", "describing"}
    /\ content[f] = "none" /\ meta[f] # "none"
         => \/ f \in cutRemovals
            \/ sweep.at = "meta" /\ sweep.file = f

\* A pass that comes to the end of the directory has removed every file that was
\* complete and expired when it began, except one that the system refused to
\* read or to delete.
PassRemovesDue ==
  sweep.at = "entry" /\ sweep.todo = {} => \A f \in due : content[f] = "none"

=============================================================================
