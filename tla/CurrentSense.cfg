SPECIFICATION Spec
INVARIANTS
  TypeOK
  SuccessIsMeasured
  SuccessIsCalibrated
  RegulatorAfterBattery
PROPERTY ReadingsRecover
