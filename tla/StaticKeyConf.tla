---------------------------- MODULE StaticKeyConf ----------------------------
(***************************************************************************)
(* How a service finds its static verification key: smarthr360_jwt_auth's  *)
(* conf.py.  A configuration has two dictionaries: settings, the dict      *)
(* SMARTHR_JWT_AUTH of the Django settings, and environ, the environment.  *)
(* The values are keys, a path, or Blank for an empty string.              *)
(***************************************************************************)

None  == "none"    \* Python's None
Blank == "blank"   \* ""

\* The value of a setting: Django's dictionary first, even where it holds "".
Setting(conf, name) ==
    IF name \in DOMAIN conf.settings THEN conf.settings[name]
    ELSE IF name \in DOMAIN conf.environ THEN conf.environ[name]
    ELSE None

\* The key a process finds when the key file holds `file` (None: there is no such file).
ResolvePublicKey(conf, file) ==
    LET key == Setting(conf, "PUBLIC_KEY")
    IN  IF key \notin {None, Blank} THEN key
        ELSE IF Setting(conf, "PUBLIC_KEY_FILE") \notin {None, Blank} THEN file
        ELSE None
=============================================================================
