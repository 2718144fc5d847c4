----------------------------- MODULE MCMigrations -----------------------------
(***************************************************************************)
(* Small instances of Migrations: two instances on directories that are     *)
(* stages of one project, with a file that has no number, and with two      *)
(* files that have the same one.                                            *)
(***************************************************************************)
EXTENDS Migrations

MCInstances == {"i1", "i2"}

F(version, name) == [version |-> version, name |-> name]

MCDirectories ==
  {<<F(1, "001_chats.sql")>>,
   <<F(1, "001_chats.sql"), F(2, "002_links.sql"), F(3, "003_log.sql")>>,
   <<F(1, "001_chats.sql"), F(2, "002_links.sql"), F(NoVersion, "draft.sql")>>,
   <<F(1, "001_chats.sql"), F(2, "002_links.sql"), F(2, "002_tags.sql"), F(3, "003_log.sql")>>}
==============================================================================
