------------------------------ MODULE Profiles ------------------------------
(***************************************************************************)
(* What the config file (ConfigStore) and the list of hosts (Catalogue)    *)
(* both speak of: saved hosts by their profile ids.                        *)
(***************************************************************************)
CONSTANTS Ids,   \* profile ids
          None   \* an absent profile; also no key, no request and no task
=============================================================================
