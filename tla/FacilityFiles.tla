----------------------------- MODULE FacilityFiles -----------------------------
(* The directory of facility files, and POST /config, which is all that      *)
(* changes it (opti_instance.c). A file belongs to the facility its lines    *)
(* name, whatever the file is called; the endpoints that only read           *)
(* (/config, /facilities) are functions of the directory.                    *)
(*                                                                           *)
(* optiserver answers one request at a time, but it may be killed, or the    *)
(* machine stop, in the middle of a POST.                                    *)
EXTENDS ConfigFile

CONSTANTS
  Files,       \* the file names there can be
  Template,    \* the one called example.conf
  NoFile,      \* a file that does not exist
  Names,       \* the facility names requests ask for
  FileOf,      \* the file a new facility of a name gets
  Blank,       \* osi_blank_facility_config
  Starts,      \* directories an installation may begin with
  Bodies,      \* what is posted
  Faults,      \* which of "open", "disk", "crash" and "signal" happen
  MaxFailures  \* bound: writes that are cut short in a behaviour

ASSUME DirectoryConstants ==
  /\ Template \in Files
  /\ NoFile \notin Text
  /\ Names \subseteq Values
  \* osi_build_facility_filename: '/', '\', ':' and control characters all
  \* become '_', so that two names may share a file.
  /\ FileOf \in [Names -> Files]
  /\ Blank \in Text
  /\ Starts \subseteq [Files -> Text \cup {NoFile}]
  \* Of a body the lines with a '=' count.
  /\ Bodies \subseteq Seq([key : FileKeys, value : Values \cup {Empty, TooLong},
                           newline : BOOLEAN])
  /\ Faults \subseteq {"open", "disk", "crash", "signal"}
  /\ MaxFailures \in Nat

VARIABLES
  dir,      \* the files
  post,     \* the last POST: how far it is, or how it was answered, its name,
            \* its file, the text it is based on and its updates
  failures  \* writes that were cut short

vars == <<dir, post, failures>>

Idle == [step |-> "idle", name |-> Empty, file |-> Template, base |-> <<>>, updates |-> <<>>]
Answers == {"idle", "200", "400", "503"}

Init ==
  /\ dir \in Starts
  /\ post = Idle
  /\ failures = 0

-----------------------------------------------------------------------------
(* Finding a facility and its text.                                          *)

\* osi_find_facility_config_path takes the first file of the directory that
\* has the name, in whatever order readdir() lists them, ...
Found(name) == {file \in Files : dir[file] # NoFile /\ Lookup(dir[file], "name") = name}

\* ... or the path a new file gets.
Paths(name) == IF Found(name) = {} THEN {FileOf[name]} ELSE Found(name)

\* read_file_to_string, which may take an empty file for none.
Reads(file) == IF dir[file] = <<>> THEN {<<>>, NoFile} ELSE {dir[file]}

\* A facility without a file begins with the template, or with a blank config.
Existing(file) ==
  (Reads(file) \ {NoFile}) \cup
    IF NoFile \notin Reads(file) THEN {}
    ELSE (Reads(Template) \ {NoFile}) \cup IF NoFile \in Reads(Template) THEN {Blank} ELSE {}

-----------------------------------------------------------------------------
(* osi_post_config.                                                          *)

Rests == post.step \in Answers

\* No name, or a body that is refused.
Reject ==
  /\ Rests
  /\ \E name \in Names \cup {Empty}, body \in Bodies : name = Empty \/ ~Parses(body)
  /\ post' = [Idle EXCEPT !.step = "400"]
  /\ UNCHANGED <<dir, failures>>

\* osi_parse_config_updates keeps a copy of a new name, which it leaks, and
\* writes one byte behind it, which may end the process.
CrashInParse ==
  /\ "crash" \in Faults
  /\ Rests
  /\ \E body \in Bodies : "name" \in DOMAIN Updates(body)
  /\ post' = Idle
  /\ UNCHANGED <<dir, failures>>

\* The updates are merged, and the file is opened for writing: it is empty.
Open ==
  /\ Rests
  /\ \E name \in Names, body \in {b \in Bodies : Parses(b)} :
       \E file \in Paths(name) : \E base \in Existing(file) :
         /\ Merge(base, Updates(body)) # <<>>
         /\ post' = [step |-> "write", name |-> name, file |-> file,
                     base |-> base, updates |-> Updates(body)]
         /\ dir' = [dir EXCEPT ![file] = <<>>]
  /\ UNCHANGED failures

\* There is nothing to write, or the file cannot be opened.
OpenFails ==
  /\ Rests
  /\ \E name \in Names, body \in {b \in Bodies : Parses(b)} :
       \/ "open" \in Faults
       \/ \E file \in Paths(name) : \E base \in Existing(file) :
            Merge(base, Updates(body)) = <<>>
  /\ post' = [Idle EXCEPT !.step = "503"]
  /\ UNCHANGED <<dir, failures>>

Merged == Merge(post.base, post.updates)

Write ==
  /\ post.step = "write"
  /\ dir' = [dir EXCEPT ![post.file] = Merged]
  /\ post' = [post EXCEPT !.step = "signal"]
  /\ UNCHANGED failures

\* A write that ends early, because the disk is full or by a crash.
CutShort ==
  /\ post.step = "write"
  /\ failures < MaxFailures
  /\ failures' = failures + 1
  /\ \E text \in Truncations(Merged) : dir' = [dir EXCEPT ![post.file] = text]

WriteFails ==
  /\ "disk" \in Faults
  /\ CutShort
  /\ post' = [Idle EXCEPT !.step = "503"]

CrashInWrite ==
  /\ "crash" \in Faults
  /\ CutShort
  /\ post' = Idle

CrashInSignal ==
  /\ "crash" \in Faults
  /\ post.step = "signal"
  /\ post' = Idle
  /\ UNCHANGED <<dir, failures>>

\* The optimizer is told by two signals and over its socket.
Signal ==
  /\ post.step = "signal"
  /\ post' = [post EXCEPT !.step = "200"]
  /\ UNCHANGED <<dir, failures>>

SignalFails ==
  /\ "signal" \in Faults
  /\ post.step = "signal"
  /\ post' = [Idle EXCEPT !.step = "503"]
  /\ UNCHANGED <<dir, failures>>

Next ==
  \/ Reject
  \/ Open
  \/ OpenFails
  \/ Write
  \/ WriteFails
  \/ CrashInParse
  \/ CrashInWrite
  \/ CrashInSignal
  \/ Signal
  \/ SignalFails

Spec == Init /\ [][Next]_vars

-----------------------------------------------------------------------------
(* Properties.                                                               *)

\* The directory has texts, of which only the last line may lack its newline,
\* and a POST under way has the file it writes.
TypeOK ==
  /\ dir \in [Files -> Text \cup {NoFile}]
  /\ post.step \in Answers \cup {"write", "signal"}
  /\ post.file \in Files /\ post.base \in Text
  /\ DOMAIN post.updates \subseteq Keys
  /\ post.step = "write" => dir[post.file] = <<>>
  /\ failures \in 0..MaxFailures

\* The keys that are lost when what is appended is glued to a last line.
Lost(base, updates) ==
  LET more == Appended(base, updates)
  IN  IF Glues(Rewritten(base, updates), more)
      THEN {base[Len(base)].key, more[1].key} ELSE {}

\* The lines no update is for, and where they are.
OtherLines(text, updates) ==
  {<<i, text[i]>> : i \in {j \in DOMAIN text : text[j].key \notin DOMAIN updates}}

\* A POST answered 200 has updated the facility, whatever its file looked like
\* and whatever an earlier write left of it: what it sets is read back, and
\* every other key is as it was, and every other line where it was. The
\* exception is a file whose last line lacks its newline.
PostIsAnUpdate ==
  post.step = "200" =>
    LET text == dir[post.file]
        lost == Lost(post.base, post.updates)
    IN  /\ \A key \in Keys \ lost :
             Lookup(text, key) = IF key \in DOMAIN post.updates THEN post.updates[key]
                                 ELSE Lookup(post.base, key)
        /\ lost = {} => OtherLines(text, post.updates) = OtherLines(post.base, post.updates)

\* A facility the optimizer can load is one it can load after a POST answered
\* 200, be its zone under the old key or the new, and so is a new one that is
\* given a name and has a template with the obligatory keys.
StaysLoadable ==
  /\ post.step = "200"
  /\ HasObligatory(post.base)
  /\ IF "name" \in DOMAIN post.updates THEN post.updates["name"] # Empty
     ELSE Lookup(post.base, "name") # Empty
  => Usable(dir[post.file])
=============================================================================
