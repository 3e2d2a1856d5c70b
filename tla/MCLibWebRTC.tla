---------------------------- MODULE MCLibWebRTC ----------------------------
(* One child process, its pipe of a few lines and two candidates. *)
EXTENDS LibWebRTCCase
=============================================================================
