---------------------------- MODULE MCDeckEditor ----------------------------
(* What the user and the network do in the runs of DeckEditor.             *)
EXTENDS DeckEditorInv

\* Saving fails while versions are added, removed or reloaded; or the deck stops
\* being the user's.
Some  == {{"fail", "create", "back"}, {"fail", "rename", "delete"},
          {"fail", "leave", "load"}, {"forbid", "leave", "create"}}
\* Nothing fails: edits and switches only.
Plain == {{}}
=============================================================================
