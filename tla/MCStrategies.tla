---------------------------- MODULE MCStrategies ----------------------------
(***************************************************************************)
(* The strategies in one run.  A behaviour works one of                    *)
(*   one       overlapping requests for one strategy;                      *)
(*   copies    three strategies: copies, exports and imports;              *)
(*   edits     two strategies, one request of a user or the assistant;     *)
(*   overlaps  one strategy and two such requests;                         *)
(*   gallery   strategies made from templates, and restarts.               *)
(***************************************************************************)
EXTENDS MCStrategyService, TemplateGallery

VARIABLE focus

Node(id, params) == [id |-> <<id>>, params |-> params]
Plain  == [quoted |-> FALSE, value |-> "object"]
Quoted == [quoted |-> TRUE,  value |-> "object"]
None   == [quoted |-> FALSE, value |-> "missing"]
Broken == [quoted |-> TRUE,  value |-> "garbage"]

First == [nodes |-> <<Node("a", Plain), Node("b", None)>>,
          edges |-> << <<<<"a">>, <<"b">>>> >>]

(* Two graphs, one with a cycle, and two texts that are none. *)
Texts ==
  {First,
   [nodes |-> <<Node("a", Quoted), Node("b", Plain)>>,
    edges |-> << <<<<"a">>, <<"b">>>>, <<<<"b">>, <<"a">>>> >>],
   [nodes |-> <<Node("a", Broken)>>, edges |-> <<>>],
   [nodes |-> <<Node("a", Plain)>>,  edges |-> << <<<<"a">>, <<"b">>>> >>]}

(* With the run's constants "overlaps"; with others the rest. *)
Copies == INSTANCE StrategyLibrary WITH
            Client <- {}, Name <- {"x"}, Code <- {1}, MaxStrategy <- 3

Edits == INSTANCE StrategyLibrary WITH Client <- {"c"}, MaxStrategy <- 2

Gallery == INSTANCE TemplateGallery WITH Client <- {}, Name <- {}, MaxStrategy <- 2

allVars == <<focus, vars, libraryVars, galleryVars>>

MCInit ==
  /\ Init
  /\ \/ focus \in {"one", "copies", "gallery"} /\ Copies!LibraryInit
     \/ focus = "edits" /\ Edits!LibraryInit
     \/ focus = "overlaps" /\ LibraryInit
  /\ GalleryInit

MCNext ==
  /\ UNCHANGED focus
  /\ \/ focus = "one" /\ Next /\ UNCHANGED <<libraryVars, galleryVars>>
     \/ focus = "copies" /\ Copies!LibraryNext /\ UNCHANGED <<vars, galleryVars>>
     \/ focus = "edits" /\ Edits!LibraryNext /\ UNCHANGED <<vars, galleryVars>>
     \/ focus = "overlaps" /\ LibraryNext /\ UNCHANGED <<vars, galleryVars>>
     \/ focus = "gallery" /\ Gallery!GalleryNext /\ UNCHANGED vars

MCSpec == MCInit /\ [][MCNext]_allVars
=============================================================================
