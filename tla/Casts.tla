------------------------------- MODULE Casts -------------------------------
(***************************************************************************)
(* Which class is an instance of which (cast.c), over the classes that the *)
(* class loaders define and the array classes made of them (class.c).      *)
(***************************************************************************)
EXTENDS Naturals, Sequences, FiniteSets

CONSTANTS
    ClassNames, InterfaceNames,
    Primitives,
    ObjectClass, Cloneable,  \* java/lang/Object and an interface of arrays
    MaxDim,                  \* bound: the dimensions of arrays
    NoClass

ASSUME ClassNamesAssumption ==
    /\ ClassNames \cap InterfaceNames = {} /\ Primitives \cap (ClassNames \cup InterfaceNames) = {}
    /\ ObjectClass \notin ClassNames \cup InterfaceNames \cup Primitives
    /\ Cloneable \notin ClassNames \cup InterfaceNames \cup Primitives \cup {ObjectClass}
    /\ NoClass \notin ClassNames \cup InterfaceNames \cup Primitives \cup {ObjectClass, Cloneable}
    /\ MaxDim \in Nat

VARIABLE classes  \* the classes by name, those of arrays by <<element, dimension>>

Cb(super, interfaces, element, dim) ==
    [super |-> super, interfaces |-> interfaces, element_class |-> element, dim |-> dim]

CastsInit ==
    classes = [c \in {ObjectClass, Cloneable} \cup Primitives |->
                  Cb(IF c = Cloneable THEN ObjectClass ELSE NoClass, {}, NoClass, 0)]

Names == {ObjectClass, Cloneable} \cup ClassNames \cup InterfaceNames
IsInterface(c) == c \in InterfaceNames \cup {Cloneable}
ArrayNames == (Names \cup Primitives) \X (1..MaxDim)
IsArray(c) == c \in ArrayNames

ASSUME ArrayNamesAssumption == ArrayNames \cap (Names \cup Primitives) = {}

(* defineClass: the superclass and the interfaces are found before.        *)
defineClass(c, super, interfaces) ==
    /\ c \notin DOMAIN classes
    /\ super \in DOMAIN classes \cap Names /\ ~IsInterface(super)
    /\ IsInterface(c) => super = ObjectClass
    /\ interfaces \subseteq {i \in DOMAIN classes \cap Names : IsInterface(i)}
    /\ classes' = [d \in DOMAIN classes \cup {c} |->
                      IF d = c THEN Cb(super, interfaces, NoClass, 0) ELSE classes[d]]

(* The element class and the dimension are kept for arrays of objects only.*)
(* Cloneable stands for java/io/Serializable as well.                      *)
createArrayClass(element, dim) ==
    /\ element \in DOMAIN classes /\ <<element, dim>> \notin DOMAIN classes
    /\ classes' = [d \in DOMAIN classes \cup {<<element, dim>>} |->
                      IF d # <<element, dim>> THEN classes[d]
                      ELSE IF element \in Primitives THEN Cb(ObjectClass, {Cloneable}, NoClass, 0)
                      ELSE Cb(ObjectClass, {Cloneable}, element, dim)]

CastsNext ==
    \/ \E c \in ClassNames \cup InterfaceNames, super \in Names :
          \E interfaces \in SUBSET (InterfaceNames \cup {Cloneable}) :
              defineClass(c, super, interfaces)
    \/ \E element \in Names \cup Primitives, dim \in 1..MaxDim : createArrayClass(element, dim)

CastsSpec == CastsInit /\ [][CastsNext]_classes

-----------------------------------------------------------------------------
(* Fault: the interfaces of a superclass are forgotten.                    *)
implements_own(class, test) ==
    LET found[c \in DOMAIN classes] ==
            \E i \in classes[c].interfaces : (i = class \/ found[i])
    IN
    found[test]

implements(class, test) ==
    LET found[c \in DOMAIN classes] ==
            \/ \E i \in classes[c].interfaces : (i = class \/ found[i])
            \/ classes[c].super # NoClass /\ found[classes[c].super]
    IN
    found[test]

isSubClassOf(class, test) ==
    LET found[c \in DOMAIN classes] ==
            c = class \/ (classes[c].super # NoClass /\ found[classes[c].super])
    IN
    found[test]

(* isInstanceOf of two classes that are no arrays.                         *)
PlainInstanceOf(class, test) ==
    \/ class = test
    \/ IF IsInterface(class) THEN implements(class, test) ELSE isSubClassOf(class, test)

isInstOfArray(class, test) ==
    \/ isSubClassOf(class, test)
    \/ /\ IsArray(class)
       /\ classes[test].element_class # NoClass /\ classes[class].element_class # NoClass
       /\ classes[class].dim = classes[test].dim
       /\ PlainInstanceOf(classes[class].element_class, classes[test].element_class)

isInstanceOf(class, test) ==
    IF IsArray(test) /\ class # test /\ ~IsInterface(class) THEN isInstOfArray(class, test)
    ELSE PlainInstanceOf(class, test)

-----------------------------------------------------------------------------
(* The classes above a class: those in every set of classes that has it    *)
(* and, with a class, its superclass and interfaces.                       *)
Parents(c) == (classes[c].interfaces \cup {classes[c].super}) \ {NoClass}
Closed == {above \in SUBSET (DOMAIN classes \ ArrayNames) : \A d \in above : Parents(d) \subseteq above}

(* The rules of the Java language for casts: an array is an Object, what   *)
(* arrays implement, an array of the same dimension whose elements are the *)
(* same primitive type or instances of its element class, or an array of   *)
(* Objects or Cloneables that are arrays themselves (isInstanceOf with     *)
(* implements, isSubClassOf and isInstOfArray, in whatever order the       *)
(* classes are defined).  The last does not hold of the code: the run has  *)
(* one dimension.                                                          *)
CastsFollowTheRules ==
    LET closed == Closed
        IsAbove(a, c) ==
            /\ {a, c} \subseteq DOMAIN classes \ ArrayNames
            /\ \A above \in closed : c \in above => a \in above
    IN
    \A class, test \in DOMAIN classes :
        isInstanceOf(class, test) <=>
            IF ~IsArray(test) THEN IsAbove(class, test)
            ELSE \/ class \in {ObjectClass, Cloneable}
                 \/ /\ IsArray(class)
                    /\ \/ class[2] = test[2] /\ IsAbove(class[1], test[1])
                       \/ class[2] < test[2] /\ class[1] \in {ObjectClass, Cloneable}

=============================================================================
