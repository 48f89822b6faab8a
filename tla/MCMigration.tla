---------------------------- MODULE MCMigration ----------------------------
(* Files written by unversioned func, by each migration's era, by a newer  *)
(* func (1.2.0), and around each threshold.                                 *)
EXTENDS Migration

MCFileVersions == { <<0, 18, 0>>, <<0, 19, 0>>, <<0, 20, 0>>, <<0, 23, 0>>,
                    <<0, 25, 0>>, <<1, 0, 0>>, <<1, 2, 0>> }
=============================================================================
