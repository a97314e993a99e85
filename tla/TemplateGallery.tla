-------------------------- MODULE TemplateGallery --------------------------
(***************************************************************************)
(* The strategy templates (executor/templates/templates.go): those that    *)
(* come with the binary, the table they are copied to at every start, in   *)
(* which an administrator may override or withdraw them and keep others,   *)
(* and the strategies made from them.  Nothing in the program but the      *)
(* start writes the table; the administrator works on the database.        *)
(***************************************************************************)
EXTENDS StrategyLibrary

CONSTANTS
  Template,     \* template codes, numbers other than 0 and 1
  Bundled,      \* those that come with the binary
  BundledText,  \* their graph
  MaxSecond     \* bound: the clock

ASSUME BundledAssumption == BundledText \in UserText /\ Parses(BundledText)
ASSUME TemplateAssumption == Bundled \subseteq Template

VARIABLES
  templates,  \* the table: text, built_in and deleted by code
  second,     \* the clock, in unix seconds
  meant       \* meant[c]: the text the administrator saved since the start, if any

galleryVars == <<templates, second, meant>>

Stored == {c \in DOMAIN templates : ~templates[c].deleted}

(* SyncToDB: an upsert for each bundled template, deleted rows stay so; failures are logged. *)
Synced(failed) ==
  LET done == Bundled \ failed
  IN [c \in DOMAIN templates \cup done |->
        IF c \in done
        THEN [text |-> BundledText, builtIn |-> TRUE,
              deleted |-> c \in DOMAIN templates /\ templates[c].deleted]
        ELSE templates[c]]

GalleryInit ==
  /\ templates = <<>>
  /\ second = 0
  /\ meant = [c \in Template |-> NoText]

Start ==
  /\ \E failed \in SUBSET Bundled :
       /\ templates' = Synced(failed)
       /\ meant' = [c \in Template |-> IF c \in Bundled \ failed THEN NoText ELSE meant[c]]
  /\ UNCHANGED <<libraryVars, second>>

(* The administrator's statements. *)
SaveTemplate(c, text) ==
  /\ Parses(text)
  /\ templates' = [d \in DOMAIN templates \cup {c} |->
                     IF d = c THEN [text |-> text, builtIn |-> FALSE, deleted |-> FALSE]
                     ELSE templates[d]]
  /\ meant' = [meant EXCEPT ![c] = text]
  /\ UNCHANGED <<libraryVars, second>>

Withdraw(c) ==
  /\ c \in Stored
  /\ templates' = [templates EXCEPT ![c].deleted = TRUE]
  /\ meant' = [meant EXCEPT ![c] = NoText]
  /\ UNCHANGED <<libraryVars, second>>

(* Mutant: what comes with the binary is looked up first. *)
GetBundledFirst(c) ==
  IF c \in Bundled THEN BundledText
  ELSE IF c \in Stored THEN templates[c].text ELSE NoText

(* Loader.Get: the table first, then the binary. *)
Get(c) ==
  IF c \in Stored THEN templates[c].text
  ELSE IF c \in Bundled THEN BundledText ELSE NoText

(* Loader.List: rows that shadow a bundled template are left out. *)
List ==
  {[code |-> c, builtIn |-> TRUE] : c \in Bundled} \cup
  {[code |-> c, builtIn |-> FALSE] : c \in {d \in Stored \ Bundled : ~templates[d].builtIn}}

(* generateCode: the template's code and the second; two in one second collide. *)
TemplateCode(c) == Generated * c + second

Instantiate(c) ==
  /\ Get(c) # NoText
  /\ Parses(Get(c))
  /\ Insert(TemplateCode(c), <<"(from template)">>, Get(c), Get(c), "template")
  /\ UNCHANGED <<file, at, what, raced, galleryVars>>

Second ==
  /\ second < MaxSecond
  /\ second' = second + 1
  /\ UNCHANGED <<libraryVars, templates, meant>>

GalleryNext ==
  \/ Start \/ Second
  \/ \E c \in Template :
       \/ \E text \in Text : SaveTemplate(c, text)
       \/ Withdraw(c)
       \/ Instantiate(c)

(* The library and the gallery together. *)
GallerySpec ==
  /\ LibraryInit /\ GalleryInit
  /\ [][GalleryNext \/ (LibraryNext /\ UNCHANGED galleryVars)]_<<libraryVars, galleryVars>>

----------------------------------------------------------------------------
(* Properties *)

(***************************************************************************)
(* "Looks up user-saved first (so admins can override a bundled template's *)
(* DAG), then bundled" (Get): until the next start what the administrator  *)
(* saved is what strategies are made from; what the gallery lists it lists *)
(* once, and it can be made into a strategy, whatever was withdrawn or     *)
(* failed to be copied.                                                    *)
(***************************************************************************)
GalleryServes ==
  /\ \A c \in DOMAIN meant : meant[c] # NoText => Get(c) = meant[c]
  /\ \A e \in List : Parses(Get(e.code))
  /\ \A e, f \in List : e.code = f.code => e = f
=============================================================================
