--------------------------- MODULE MCReleaseDraft ---------------------------
(* Two files, the manifest first; a list of up to five releases is read    *)
(* two on a page, so it has one to three pages.                            *)
EXTENDS ReleaseDraft

MCFiles == <<"manifest", "package">>

=============================================================================
