------------------------------ MODULE KeyLayer ------------------------------
(***************************************************************************)
(* The keyboard layer (Keys.cpp).  A register of keys is an array of four  *)
(* 64-bit words; here it is the set of its bits <<word, offset>> that are  *)
(* 1.  Reading and writing compute the offset of a key in different ways.  *)
(***************************************************************************)
EXTENDS Integers

CONSTANTS
  PhysicalKeys, \* keys of the keyboard
  KeyOf         \* the cases of __mapSDLKeyToGLGEKey

GLGE_KEY_ENUM_MAX == 255
Key == 0 .. GLGE_KEY_ENUM_MAX

ASSUME KeyAssumption ==
  /\ DOMAIN KeyOf \subseteq PhysicalKeys
  /\ \A k \in DOMAIN KeyOf : KeyOf[k] \in Key

\* __mapSDLKeyToGLGEKey: the keys without a case share one code
MapKey(k) == IF k \in DOMAIN KeyOf THEN KeyOf[k] ELSE GLGE_KEY_ENUM_MAX

Bits == (0 .. 3) \X (0 .. 63)

VARIABLES
  pressed, enabled, released, repeated, \* m_pressed, m_enabled, ...
  pressedBefore                         \* m_pressed at the last onUpdate()

keyVars == <<pressed, enabled, released, repeated, pressedBefore>>

KeysInit ==
  /\ pressed = {}
  /\ enabled = {}
  /\ released = {}
  /\ repeated = {}
  /\ pressedBefore = {}

-----------------------------------------------------------------------------

\* key_isSignaled: word key / 64, offset key % 64
Bit(k) == <<k \div 64, k % 64>>

IsSignaled(k, keys) == Bit(k) \in keys

\* key_setSignaled: the offset is key - key * 64 in eight bits; a shift of a
\* 64-bit word takes the low six of them (undefined in C++, the shl of x86-64)
ShiftOffset(k) == ((k - k * 64) % 256) % 64

SetBit(k) == <<k \div 64, ShiftOffset(k)>>

SetSignaled(k, on, keys) == IF on THEN keys \cup {SetBit(k)} ELSE keys \ {SetBit(k)}

KeysOnUpdate ==
  /\ enabled' = {}
  /\ released' = {}
  /\ repeated' = {}
  /\ pressedBefore' = pressed
  /\ UNCHANGED pressed

\* mutant: a repeat is not told from a press
RepeatIsIgnored(k) ==
  /\ enabled' = SetSignaled(k, ~IsSignaled(k, pressed), enabled)
  /\ pressed' = SetSignaled(k, TRUE, pressed)
  /\ UNCHANGED <<released, repeated, pressedBefore>>

\* handleEvent, KEY_DOWN: a repeat in the same update takes the edge back
KeyDown(k) ==
  /\ repeated' = SetSignaled(k, IsSignaled(k, pressed), repeated)
  /\ enabled' = SetSignaled(k, ~IsSignaled(k, pressed), enabled)
  /\ pressed' = SetSignaled(k, TRUE, pressed)
  /\ UNCHANGED <<released, pressedBefore>>

\* handleEvent, KEY_UP
KeyUp(k) ==
  /\ pressed' = SetSignaled(k, FALSE, pressed)
  /\ released' = SetSignaled(k, TRUE, released)
  /\ UNCHANGED <<enabled, repeated, pressedBefore>>
=============================================================================
